---------------------------- MODULE Spec2Model ----------------------------
(***************************************************************************)
(* A model of the session-and-resolution layer of moviebox_api:            *)
(*   - requests.Session: the lazy cookie handshake and the authenticated   *)
(*     calls, interleaved at their await points (specification Spec);      *)
(*   - helpers.process_api_response: the envelope unwrap                   *)
(*     (specification SpecEnvelope);                                       *)
(*   - core.Search / Trending / Recommend: page navigation                 *)
(*     (specification SpecPaging);                                         *)
(*   - core.Search.get_content: the subject-type and season-suffix filter  *)
(*     (specification SpecSearch);                                         *)
(*   - core.Recommend.get_content against a server with a finite list of   *)
(*     items (specification SpecRecommend);                                *)
(*   - core.MovieDetails / TVSeriesDetails: construction and the cached    *)
(*     page body (specification SpecDetails);                              *)
(*   - models.DownloadableFilesMetadata and                                *)
(*     download.resolve_media_file_to_be_downloaded: the choice of an      *)
(*     asset (specification SpecAssets);                                   *)
(*   - download.MediaFileDownloader / CaptionFileDownloader                *)
(*     .generate_filename (specification SpecNaming);                      *)
(*   - download.MediaFileDownloader / CaptionFileDownloader.run and        *)
(*     create_final_dir (specification SpecDownload);                      *)
(*   - the loop of Recommend.get_content and next_page from page 1         *)
(*     (specification SpecRecommendLoop).                                  *)
(* Each specification drives its own variables and leaves the others at    *)
(* their initial values.                                                   *)
(***************************************************************************)
EXTENDS Integers, Sequences, FiniteSets, TLC

VARIABLES
    \* ---- requests.Session
    fetched,     \* Session.__moviebox_app_info_fetched
    appInfo,     \* Session.moviebox_app_info
    tasks,       \* the coroutines running get / get_with_cookies / post ...
    net,         \* requests put on the wire so far, by kind
    calls,       \* number of calls started so far
    lastDone,    \* the call that finished last, with what it gave its caller
    \* ---- helpers.process_api_response
    envelope,    \* the json handed to process_api_response
    unwrapped,   \* what process_api_response gave for it
    \* ---- core.Search / Trending / Recommend navigation
    recv,        \* the query object in hand (the receiver of the next call)
    content,     \* the results model in hand (from get_content_model)
    nav,         \* the last next_page / previous_page call and its outcome
    origin,      \* the pager page recv was reached from by next_page, if any
    \* ---- core.Search.get_content
    rawItems,    \* contents["items"] as the server sent it
    wanted,      \* Search._subject_type
    searchOut,   \* what Search.get_content gave
    \* ---- core.Recommend against a server holding a finite item list
    shelf,       \* how many items the server holds for the recommendation
    rquery,      \* the Recommend query in hand
    rfetch,      \* its last get_content: what the server sent, what came back
    \* ---- core.MovieDetails / TVSeriesDetails (BaseItemDetails)
    resolver,    \* the details object in hand, with its cached page body
    built,       \* the last construction: its argument and its outcome
    dtasks,      \* the coroutines running a method of that object
    pageReqs,    \* requests for the detail page sent since construction
    dlast,       \* the method call that finished last, with its outcome
    \* ---- models.DownloadableFilesMetadata and resolve_media_file_to_be_downloaded
    downloads,   \* DownloadableFilesMetadata.downloads
    captions,    \* DownloadableFilesMetadata.captions
    asked,       \* the last question put to the bundle
    resolved,    \* and its answer
    \* ---- download.MediaFileDownloader / CaptionFileDownloader.generate_filename
    plan,        \* the arguments of the last generate_filename
    planned,     \* the file name it gave
    \* ---- download.MediaFileDownloader / CaptionFileDownloader.run and
    \*      _bases.BaseFileDownloaderAndHelper.create_final_dir
    disk,        \* the directories that exist on disk
    job,         \* the last call of run or create_final_dir, with its arguments
    jobOut,      \* what that call gave
    runner       \* the calls of throttle_buster.run that call made

sessVars   == <<fetched, appInfo, tasks, net, calls, lastDone>>
envVars    == <<envelope, unwrapped>>
pageVars   == <<recv, content, nav, origin>>
searchVars == <<rawItems, wanted, searchOut>>
recVars    == <<shelf, rquery, rfetch>>
detVars    == <<resolver, built, dtasks, pageReqs, dlast>>
assetVars  == <<downloads, captions, asked, resolved>>
planVars   == <<plan, planned>>
runVars    == <<disk, job, jobOut, runner>>
vars == <<fetched, appInfo, tasks, net, calls, lastDone, envelope, unwrapped,
          recv, content, nav, origin, rawItems, wanted, searchOut,
          shelf, rquery, rfetch, resolver, built, dtasks, pageReqs, dlast,
          downloads, captions, asked, resolved, plan, planned,
          disk, job, jobOut, runner>>

(***************************************************************************)
(* Values                                                                  *)
(***************************************************************************)

\* Python's None, and "no value here", as a record so that it compares with
\* every other value of the model (all of them records).
Nothing == [nothing |-> TRUE]

\* What a call gives its caller: a returned value, or a raised exception with
\* the object the exception carries.
Return(v) == [kind |-> "return", exc |-> "", value |-> v, carried |-> Nothing]

Raise(e, c) == [kind |-> "raise", exc |-> e, value |-> Nothing, carried |-> c]

\* A key of a json object: present with a value, or absent.
Some(v) == [has |-> TRUE, val |-> v]

NoCode == [has |-> FALSE, val |-> 0]

NoMessage == [has |-> FALSE, val |-> ""]

NoData == [has |-> FALSE, val |-> Nothing]

\* dict.get(key, default)
DictGet(field, default) == IF field.has THEN field.val ELSE default

\* The default of dict.get(key): None. No message of the model is this string.
NoneStr == "<None>"


(***************************************************************************)
(* Bounds                                                                  *)
(***************************************************************************)

\* Calls started on the one Session in a run.
MaxCalls == 3

\* Envelope codes range over 0 .. MaxCode.
MaxCode == 1

\* Fetches (get_content_model calls) in a run of page navigation.
MaxFetches == 2

\* Items in one page of search results.
MaxItems == 3

\* Pages a caller asks for range over 0 .. MaxPage; the pages a server
\* names in a pager range over 0 .. MaxPage + 1.
MaxPage == 1

(***************************************************************************)
(* helpers.process_api_response                                            *)
(***************************************************************************)

\* Payloads of the data field. A dict is one MovieboxAppInfo accepts or one
\* it rejects; a list holds dicts.
Dict(ok) == [kind |-> "dict", valid |-> ok, elems |-> <<>>]

List(es) == [kind |-> "list", valid |-> FALSE, elems |-> es]

Null == [kind |-> "null", valid |-> FALSE, elems |-> <<>>]

Env(c, m, d) == [code |-> c, message |-> m, data |-> d]

\* The changed form json.get("code", 0): a missing code counts as success.
process_api_response_default0(json) ==
    IF DictGet(json.code, 0) = 0 /\ DictGet(json.message, NoneStr) = "ok"
    THEN IF json.data.has THEN Return(json.data.val) ELSE Raise("KeyError", Nothing)
    ELSE Raise("UnsuccessfulResponseError", json)

\* The changed form that raises without the envelope.
process_api_response_bare(json) ==
    IF DictGet(json.code, 1) = 0 /\ DictGet(json.message, NoneStr) = "ok"
    THEN IF json.data.has THEN Return(json.data.val) ELSE Raise("KeyError", Nothing)
    ELSE Raise("UnsuccessfulResponseError", Nothing)

\* json["data"] when code == 0 and message == "ok" (a KeyError when the key
\* is absent), UnsuccessfulResponseError(json) otherwise.
process_api_response(json) ==
    IF DictGet(json.code, 1) = 0 /\ DictGet(json.message, NoneStr) = "ok"
    THEN IF json.data.has THEN Return(json.data.val) ELSE Raise("KeyError", Nothing)
    ELSE Raise("UnsuccessfulResponseError", json)

(***************************************************************************)
(* requests.Session                                                        *)
(***************************************************************************)

Tasks == {"t1", "t2"}

AuthKinds == {"get_with_cookies", "get_with_cookies_from_api", "post", "post_to_api"}

ApiKinds == {"get_from_api", "get_with_cookies_from_api", "post_to_api"}

Kinds == {"get", "get_from_api"} \cup AuthKinds

\* httpx responses: a status and a body, the body empty or a json envelope.
EmptyBody == [empty |-> TRUE, json |-> Nothing]

JsonBody(e) == [empty |-> FALSE, json |-> e]

Response(st, b) == [status |-> st, body |-> b]

Statuses == {200, 500}

SessionBodies ==
    { EmptyBody,
      JsonBody(Env(Some(0), Some("ok"), Some(Dict(TRUE)))),
      JsonBody(Env(Some(0), Some("ok"), Some(List(<<Dict(TRUE)>>)))),
      JsonBody(Env(Some(0), Some("ok"), Some(Dict(FALSE)))),
      JsonBody(Env(Some(1), Some("fail"), NoData)) }

Responses == { Response(st, b) : st \in Statuses, b \in SessionBodies }

\* httpx.Response.is_success, which raise_for_status tests.
is_success(resp) == resp.status \in 200..299

\* The changed form that returns an empty response as it is.
validate_response_lenient(resp) == Return(resp)

\* Session._validate_response
validate_response(resp) ==
    IF resp.body.empty
    THEN Raise("EmptyResponseError", resp)
    ELSE Return(resp)

\* response.raise_for_status() and then the value of `rest`
after_raise_for_status(resp, rest) ==
    IF is_success(resp) THEN rest ELSE Raise("HTTPStatusError", resp)

\* response.json()
response_json(resp) ==
    IF resp.body.empty THEN Raise("JSONDecodeError", Nothing) ELSE Return(resp.body.json)

\* The changed form that tests for an empty body before the status.
finish_call_empty_first(kind, resp) ==
    LET v == validate_response(resp)
        r == IF v.kind = "raise" THEN v ELSE after_raise_for_status(resp, v)
    IN
    IF kind \in ApiKinds /\ r.kind = "return"
    THEN LET j == response_json(r.value) IN
         IF j.kind = "return" THEN process_api_response(j.value) ELSE j
    ELSE r

\* What Session.get / get_with_cookies / post do with the response of their
\* own request, and what the *_api variants do with that.
finish_call(kind, resp) ==
    LET r == after_raise_for_status(resp, validate_response(resp)) IN
    IF kind \in ApiKinds /\ r.kind = "return"
    THEN LET j == response_json(r.value) IN
         IF j.kind = "return" THEN process_api_response(j.value) ELSE j
    ELSE r

\* MovieboxAppInfo(**moviebox_app_info)
MovieboxAppInfo(d) ==
    CASE d.kind = "dict" /\ d.valid -> Return(d)
      [] d.kind = "dict" -> Raise("ValidationError", Nothing)
      [] OTHER -> Raise("TypeError", Nothing)

\* Session._fetch_app_info, from the response of its request on.
fetch_app_info(resp) ==
    LET j == response_json(resp)
        d == IF j.kind = "return" THEN process_api_response(j.value) ELSE j
        one == IF d.kind = "return" /\ d.value.kind = "list"
               THEN IF Len(d.value.elems) > 0
                    THEN Return(d.value.elems[1])
                    ELSE Raise("IndexError", Nothing)
               ELSE d
    IN  after_raise_for_status(resp,
            IF one.kind = "return" THEN MovieboxAppInfo(one.value) ELSE one)

\* The changed guard that fetches on every call.
ensure_needs_fetch_always(flag) == TRUE

\* The changed guard that never fetches.
ensure_needs_fetch_never(flag) == FALSE

\* ensure_cookies_are_assigned: `if not self.__moviebox_app_info_fetched`
ensure_needs_fetch(flag) == ~flag

\* The changed form that sets the flag whether or not the fetch raised.
flag_after_fetch_always(flag, r) == TRUE

\* ensure_cookies_are_assigned: the flag after `await self._fetch_app_info()`
\* gave r; the assignment that follows the await is skipped when it raised.
flag_after_fetch(flag, r) == IF r.kind = "return" THEN TRUE ELSE flag

Idle == [pc |-> "idle", kind |-> "get", log |-> <<>>, afterOk |-> FALSE, first |-> FALSE]

\* No call has finished. Of a finished call, hs is the handshake response it
\* failed on and resp the response to its own request.
NoCall == [task |-> "none", kind |-> "get", log |-> <<>>, afterOk |-> FALSE,
           first |-> FALSE, hs |-> Nothing, resp |-> Nothing, out |-> Nothing]

SessInit ==
    /\ fetched = FALSE
    /\ appInfo = Nothing
    /\ tasks = [t \in Tasks |-> Idle]
    /\ net = [hsSent |-> 0, hsOk |-> 0, hsFailed |-> 0, authSent |-> 0, plainSent |-> 0,
              authCalls |-> 0]
    /\ calls = 0
    /\ lastDone = NoCall

\* A call starts and runs to its first await: get sends its request on a
\* client of its own; get_with_cookies and post enter
\* ensure_cookies_are_assigned, which sends the handshake request when the
\* flag is unset, and otherwise go on to send their own request.
Start(t, k) ==
    /\ tasks[t].pc = "idle"
    /\ calls < MaxCalls
    /\ calls' = calls + 1
    /\ LET call == [Idle EXCEPT !.kind = k,
                                !.afterOk = (k \in AuthKinds /\ net.hsOk > 0),
                                !.first = (k \in AuthKinds /\ net.authCalls = 0)]
       IN
       IF k \in AuthKinds
       THEN IF ensure_needs_fetch(fetched)
            THEN /\ tasks' = [tasks EXCEPT ![t] =
                        [call EXCEPT !.pc = "await_handshake", !.log = <<"handshake">>]]
                 /\ net' = [net EXCEPT !.hsSent = @ + 1, !.authCalls = @ + 1]
            ELSE /\ tasks' = [tasks EXCEPT ![t] =
                        [call EXCEPT !.pc = "await_target", !.log = <<"target">>]]
                 /\ net' = [net EXCEPT !.authSent = @ + 1, !.authCalls = @ + 1]
       ELSE /\ tasks' = [tasks EXCEPT ![t] =
                        [call EXCEPT !.pc = "await_target", !.log = <<"target">>]]
            /\ net' = [net EXCEPT !.plainSent = @ + 1]
    /\ UNCHANGED <<fetched, appInfo, lastDone>>
    /\ UNCHANGED <<envVars, pageVars, searchVars, recVars, detVars, assetVars, planVars, runVars>>

\* The handshake response arrives: _fetch_app_info runs to its end; when it
\* returns, the flag is set and the call sends its own request; when it
\* raises, the call ends with that exception.
HandshakeResponse(t, resp) ==
    /\ tasks[t].pc = "await_handshake"
    /\ LET r == fetch_app_info(resp) IN
       IF r.kind = "return"
       THEN /\ appInfo' = r.value
            /\ fetched' = flag_after_fetch(fetched, r)
            /\ tasks' = [tasks EXCEPT ![t].pc = "await_target",
                                      ![t].log = Append(@, "target")]
            /\ net' = [net EXCEPT !.hsOk = @ + 1, !.authSent = @ + 1]
            /\ UNCHANGED lastDone
       ELSE /\ lastDone' = [task |-> t, kind |-> tasks[t].kind, log |-> tasks[t].log,
                            afterOk |-> tasks[t].afterOk, first |-> tasks[t].first,
                            hs |-> resp, resp |-> Nothing, out |-> r]
            /\ tasks' = [tasks EXCEPT ![t] = Idle]
            /\ net' = [net EXCEPT !.hsFailed = @ + 1]
            /\ fetched' = flag_after_fetch(fetched, r)
            /\ UNCHANGED appInfo
    /\ UNCHANGED calls
    /\ UNCHANGED <<envVars, pageVars, searchVars, recVars, detVars, assetVars, planVars, runVars>>

\* The response of the call's own request arrives and the call ends.
TargetResponse(t, resp) ==
    /\ tasks[t].pc = "await_target"
    /\ lastDone' = [task |-> t, kind |-> tasks[t].kind, log |-> tasks[t].log,
                    afterOk |-> tasks[t].afterOk, first |-> tasks[t].first,
                    hs |-> Nothing, resp |-> resp,
                    out |-> finish_call(tasks[t].kind, resp)]
    /\ tasks' = [tasks EXCEPT ![t] = Idle]
    /\ UNCHANGED <<fetched, appInfo, net, calls>>
    /\ UNCHANGED <<envVars, pageVars, searchVars, recVars, detVars, assetVars, planVars, runVars>>


(***************************************************************************)
(* The parts a specification does not drive stay as they start.            *)
(***************************************************************************)

EnvIdle == envelope = Nothing /\ unwrapped = Nothing

PageIdle == recv = Nothing /\ content = Nothing /\ nav = Nothing /\ origin = Nothing

SearchIdle == rawItems = <<>> /\ wanted = 0 /\ searchOut = Nothing

RecIdle == shelf = 0 /\ rquery = Nothing /\ rfetch = Nothing

DetIdle ==
    /\ resolver = Nothing /\ built = Nothing /\ dtasks = [t \in Tasks |-> Nothing]
    /\ pageReqs = 0 /\ dlast = Nothing

AssetIdle == downloads = <<>> /\ captions = <<>> /\ asked = Nothing /\ resolved = Nothing

PlanIdle == plan = Nothing /\ planned = Nothing

\* Of the working directories of the model, <<"w">> exists.
RunIdle == disk = {<<"w">>} /\ job = Nothing /\ jobOut = Nothing /\ runner = <<>>

(***************************************************************************)
(* Spec: one Session used by concurrent calls                              *)
(***************************************************************************)

Init ==
    /\ SessInit /\ EnvIdle /\ PageIdle /\ SearchIdle
    /\ RecIdle /\ DetIdle /\ AssetIdle /\ PlanIdle /\ RunIdle

Next ==
    \/ \E t \in Tasks, k \in Kinds : Start(t, k)
    \/ \E t \in Tasks, resp \in Responses : HandshakeResponse(t, resp)
    \/ \E t \in Tasks, resp \in Responses : TargetResponse(t, resp)

Spec == Init /\ [][Next]_vars


\* The calls in progress and the call that finished last.
CallRecords ==
    { [kind |-> tasks[t].kind, log |-> tasks[t].log, afterOk |-> tasks[t].afterOk,
       first |-> tasks[t].first] : t \in { u \in Tasks : tasks[u].pc # "idle" } }
    \cup
    { [kind |-> lastDone.kind, log |-> lastDone.log, afterOk |-> lastDone.afterOk,
       first |-> lastDone.first] : x \in { y \in {1} : lastDone.task # "none" } }

\* C1: on one Session, authenticated calls that overlap send the handshake
\* request at most once in total (no handshake having failed, so that none
\* had to be repeated).
C1_HandshakeAtMostOnce == net.hsFailed = 0 => net.hsSent <= 1

\* C2: no authenticated request is on the wire before a handshake of this
\* Session has completed successfully, in every interleaving.
C2_NoAuthBeforeHandshake ==
    /\ net.authSent > 0 => net.hsOk > 0
    /\ \A t \in Tasks :
          (tasks[t].pc = "await_target" /\ tasks[t].kind \in AuthKinds) => net.hsOk > 0
    /\ fetched => (net.hsOk > 0 /\ appInfo # Nothing)

\* C2's case: one call has sent its authenticated request while another,
\* started concurrently, still waits for its own handshake response.
C2_Witness ==
    \E t, u \in Tasks :
        /\ tasks[t].pc = "await_target" /\ tasks[t].kind \in AuthKinds
        /\ tasks[u].pc = "await_handshake"

\* C3: constructing the Session sends nothing; the first authenticated call
\* sends exactly one handshake request, and sends it before its own request;
\* a call started after a handshake has succeeded sends no handshake request.
C3_LazyIdempotentHandshake ==
    /\ calls = 0 =>
          (net.hsSent = 0 /\ net.authSent = 0 /\ net.plainSent = 0 /\ ~fetched)
    /\ \A c \in CallRecords :
          /\ c.first => (c.log \in {<<"handshake">>, <<"handshake", "target">>})
          /\ c.afterOk => c.log = <<"target">>

\* C3's case: a first call has done the handshake and a later authenticated
\* call, started after it, has finished.
C3_Witness ==
    /\ lastDone.task # "none" /\ lastDone.afterOk /\ lastDone.kind \in AuthKinds
    /\ lastDone.out.kind = "return"
    /\ net.hsSent = 1 /\ net.authSent = 2

\* C5: a call of get, get_with_cookies or post (or of their *_api variants)
\* whose own request comes back 2xx with a zero-length body raises
\* EmptyResponseError carrying that response, and returns nothing.
C5_EmptyBodyRaises ==
    (lastDone.task # "none" /\ lastDone.resp # Nothing) =>
        ((is_success(lastDone.resp) /\ lastDone.resp.body.empty) =>
            lastDone.out = Raise("EmptyResponseError", lastDone.resp))

\* C5's case: an authenticated api call got a 200 with an empty body.
C5_Witness ==
    /\ lastDone.task # "none" /\ lastDone.kind = "post_to_api"
    /\ lastDone.resp = Response(200, EmptyBody)
    /\ lastDone.out.exc = "EmptyResponseError"


(***************************************************************************)
(* SpecEnvelope: process_api_response on the envelopes a server may send   *)
(***************************************************************************)

Codes == {NoCode} \cup { Some(c) : c \in -1..MaxCode }

Messages == {NoMessage, Some("ok"), Some("fail"), Some("OK")}

Datas == {NoData, Some(Dict(TRUE)), Some(List(<<>>)), Some(Null)}

Envelopes == { Env(c, m, d) : c \in Codes, m \in Messages, d \in Datas }

EnvInit == envelope \in Envelopes /\ unwrapped = Nothing

\* response.json() of another response is in hand.
Receive(e) ==
    /\ unwrapped # Nothing
    /\ envelope' = e
    /\ unwrapped' = Nothing
    /\ UNCHANGED <<sessVars, pageVars, searchVars, recVars, detVars, assetVars, planVars, runVars>>

\* process_api_response(envelope)
Unwrap ==
    /\ unwrapped = Nothing
    /\ unwrapped' = process_api_response(envelope)
    /\ UNCHANGED envelope
    /\ UNCHANGED <<sessVars, pageVars, searchVars, recVars, detVars, assetVars, planVars, runVars>>

InitEnvelope ==
    /\ EnvInit /\ SessInit /\ PageIdle /\ SearchIdle
    /\ RecIdle /\ DetIdle /\ AssetIdle /\ PlanIdle /\ RunIdle

NextEnvelope ==
    \/ \E e \in Envelopes : Receive(e)
    \/ Unwrap

SpecEnvelope == InitEnvelope /\ [][NextEnvelope]_vars

\* code == 0 and message == "ok", both keys present.
EnvelopeSucceeds(e) ==
    /\ e.code.has /\ e.code.val = 0
    /\ e.message.has /\ e.message.val = "ok"

\* C4 as stated: the result is the value of the data field iff code == 0 and
\* message == "ok"; in every other case UnsuccessfulResponseError is raised
\* with the whole envelope.
C4_Original ==
    unwrapped # Nothing =>
        IF EnvelopeSucceeds(envelope)
        THEN unwrapped = Return(envelope.data.val)
        ELSE unwrapped = Raise("UnsuccessfulResponseError", envelope)

\* C4 as amended: with code == 0 and message == "ok" the result is the value
\* of the data field when the envelope has one and a KeyError when it has
\* none; in every other case (a missing code or message included)
\* UnsuccessfulResponseError is raised with the whole envelope.
C4_Unwrap ==
    unwrapped # Nothing =>
        CASE EnvelopeSucceeds(envelope) /\ envelope.data.has ->
                unwrapped = Return(envelope.data.val)
          [] EnvelopeSucceeds(envelope) /\ ~envelope.data.has ->
                unwrapped.kind = "raise" /\ unwrapped.exc = "KeyError"
          [] OTHER ->
                unwrapped = Raise("UnsuccessfulResponseError", envelope)

\* C4's case: an envelope with message "ok" and no code has been refused,
\* and the error carries it.
C4_Witness ==
    /\ envelope.code = NoCode /\ envelope.message = Some("ok") /\ envelope.data.has
    /\ unwrapped = Raise("UnsuccessfulResponseError", envelope)


(***************************************************************************)
(* core.Search / core.Trending / core.Recommend: navigation                *)
(***************************************************************************)

\* constants.SubjectType
ALL == 0

MOVIES == 1

TV_SERIES == 2

\* A parameter a class does not have.
NoParam == "-"

NoSubjectType == -1

\* Search.__init__
Search(session, query, subject_type, page, per_page) ==
    [cls |-> "Search", session |-> session, query |-> query,
     subject_type |-> subject_type, item |-> NoParam, page |-> page, per_page |-> per_page]

\* Trending.__init__
Trending(session, page, per_page) ==
    [cls |-> "Trending", session |-> session, query |-> NoParam,
     subject_type |-> NoSubjectType, item |-> NoParam, page |-> page, per_page |-> per_page]

\* Recommend.__init__
Recommend(session, item, page, per_page) ==
    [cls |-> "Recommend", session |-> session, query |-> NoParam,
     subject_type |-> NoSubjectType, item |-> item, page |-> page, per_page |-> per_page]

\* models.SearchResultsPagerModel
Pager(hasMore, nextPage, page, perPage, totalCount) ==
    [hasMore |-> hasMore, nextPage |-> nextPage, page |-> page, perPage |-> perPage,
     totalCount |-> totalCount]

\* models.SearchResultsModel / models.TrendingResultsModel, the item list by
\* its length.
ContentModel(model, pager, nitems) == [model |-> model, pager |-> pager, nitems |-> nitems]

\* The model class get_content_model of each query class builds, which its
\* next_page and previous_page assert to be given.
ModelOf(cls) == IF cls = "Trending" THEN "TrendingResultsModel" ELSE "SearchResultsModel"

\* What a call on a query object leaves behind: the receiver after the call,
\* what the caller gets, and whether the object returned is the receiver.
Outcome(self, out, isSelf) == [self |-> self, out |-> out, isSelf |-> isSelf]

\* The changed form that advances the receiver in place and returns it.
Search_next_page_inplace(self, c) ==
    IF c.model # "SearchResultsModel"
    THEN Outcome(self, Raise("AssertionError", Nothing), FALSE)
    ELSE IF c.pager.hasMore
         THEN Outcome([self EXCEPT !.page = c.pager.nextPage],
                      Return([self EXCEPT !.page = c.pager.nextPage]), TRUE)
         ELSE Outcome(self, Raise("ExhaustedSearchResultsError", c.pager), FALSE)

\* Search.next_page
Search_next_page(self, c) ==
    IF c.model # "SearchResultsModel"
    THEN Outcome(self, Raise("AssertionError", Nothing), FALSE)
    ELSE IF c.pager.hasMore
         THEN Outcome(self, Return(Search(self.session, self.query, self.subject_type,
                                          c.pager.nextPage, self.per_page)), FALSE)
         ELSE Outcome(self, Raise("ExhaustedSearchResultsError", c.pager), FALSE)

\* Search.previous_page
Search_previous_page(self, c) ==
    IF c.model # "SearchResultsModel"
    THEN Outcome(self, Raise("AssertionError", Nothing), FALSE)
    ELSE IF c.pager.page >= 2
         THEN Outcome(self, Return(Search(self.session, self.query, self.subject_type,
                                          c.pager.page - 1, self.per_page)), FALSE)
         ELSE Outcome(self, Raise("MovieboxApiException", Nothing), FALSE)

\* The changed form that goes ahead without testing hasMore.
Trending_next_page_unchecked(self, c) ==
    IF c.model # "TrendingResultsModel"
    THEN Outcome(self, Raise("AssertionError", Nothing), FALSE)
    ELSE Outcome(self, Return(Trending(self.session, c.pager.nextPage, self.per_page)), FALSE)

\* Trending.next_page
Trending_next_page(self, c) ==
    IF c.model # "TrendingResultsModel"
    THEN Outcome(self, Raise("AssertionError", Nothing), FALSE)
    ELSE IF c.pager.hasMore
         THEN Outcome(self, Return(Trending(self.session, c.pager.nextPage, self.per_page)),
                      FALSE)
         ELSE Outcome(self, Raise("ExhaustedSearchResultsError", c.pager), FALSE)

\* The changed form with the first-page guard of Search and Recommend.
Trending_previous_page_from2(self, c) ==
    IF c.model # "TrendingResultsModel"
    THEN Outcome(self, Raise("AssertionError", Nothing), FALSE)
    ELSE IF c.pager.page >= 2
         THEN Outcome(self, Return(Trending(self.session, c.pager.page - 1, self.per_page)),
                      FALSE)
         ELSE Outcome(self, Raise("MovieboxApiException", Nothing), FALSE)

\* Trending.previous_page
Trending_previous_page(self, c) ==
    IF c.model # "TrendingResultsModel"
    THEN Outcome(self, Raise("AssertionError", Nothing), FALSE)
    ELSE IF c.pager.page >= 1
         THEN Outcome(self, Return(Trending(self.session, c.pager.page - 1, self.per_page)),
                      FALSE)
         ELSE Outcome(self, Raise("MovieboxApiException", Nothing), FALSE)

\* The changed form whose error carries no pager.
Recommend_next_page_no_pager(self, c) ==
    IF c.model # "SearchResultsModel"
    THEN Outcome(self, Raise("AssertionError", Nothing), FALSE)
    ELSE IF c.pager.hasMore
         THEN Outcome(self, Return(Recommend(self.session, self.item, c.pager.nextPage,
                                             self.per_page)), FALSE)
         ELSE Outcome(self, Raise("ExhaustedSearchResultsError", Nothing), FALSE)

\* Recommend.next_page
Recommend_next_page(self, c) ==
    IF c.model # "SearchResultsModel"
    THEN Outcome(self, Raise("AssertionError", Nothing), FALSE)
    ELSE IF c.pager.hasMore
         THEN Outcome(self, Return(Recommend(self.session, self.item, c.pager.nextPage,
                                             self.per_page)), FALSE)
         ELSE Outcome(self, Raise("ExhaustedSearchResultsError", c.pager), FALSE)

\* The changed form that steps back from the receiver's page by two.
Recommend_previous_page_by2(self, c) ==
    IF c.model # "SearchResultsModel"
    THEN Outcome(self, Raise("AssertionError", Nothing), FALSE)
    ELSE IF c.pager.page >= 2
         THEN Outcome(self, Return(Recommend(self.session, self.item, c.pager.page - 2,
                                             self.per_page)), FALSE)
         ELSE Outcome(self, Raise("MovieboxApiException", Nothing), FALSE)

\* Recommend.previous_page
Recommend_previous_page(self, c) ==
    IF c.model # "SearchResultsModel"
    THEN Outcome(self, Raise("AssertionError", Nothing), FALSE)
    ELSE IF c.pager.page >= 2
         THEN Outcome(self, Return(Recommend(self.session, self.item, c.pager.page - 1,
                                             self.per_page)), FALSE)
         ELSE Outcome(self, Raise("MovieboxApiException", Nothing), FALSE)

\* self.next_page(content), by the receiver's class.
next_page(self, c) ==
    CASE self.cls = "Search" -> Search_next_page(self, c)
      [] self.cls = "Trending" -> Trending_next_page(self, c)
      [] OTHER -> Recommend_next_page(self, c)

\* self.previous_page(content), by the receiver's class.
previous_page(self, c) ==
    CASE self.cls = "Search" -> Search_previous_page(self, c)
      [] self.cls = "Trending" -> Trending_previous_page(self, c)
      [] OTHER -> Recommend_previous_page(self, c)


\* What the server answers a page request with: a failure, or a pager (any
\* numbers: the server is not this program's) and a list of items.
PerPages == {18, 24}

Pagers ==
    { Pager(h, n, p, pp, 0) :
        h \in BOOLEAN, n \in 0..(MaxPage + 1), p \in 0..(MaxPage + 1), pp \in PerPages }

Replies ==
    { [ok |-> TRUE, pager |-> p, nitems |-> n] : p \in Pagers, n \in 0..1 }
    \cup { [ok |-> FALSE, pager |-> Pager(FALSE, 0, 0, 18, 0), nitems |-> 0] }

HandshakeReplies ==
    { Response(200, JsonBody(Env(Some(0), Some("ok"), Some(Dict(TRUE))))),
      Response(500, EmptyBody) }

\* Recommend.get_content as the server sent it back, pager and all.
Recommend_get_content_asis(self, reply) == reply

\* The changed form whose hasMore tells whether the page came back full.
Recommend_get_content_full_page(self, reply) ==
    [reply EXCEPT !.pager = Pager(reply.nitems >= self.per_page, self.page + 1, self.page,
                                  self.per_page, 0)]

\* Recommend.get_content: the pager is made up from the receiver and the
\* items, whatever the server sent.
Recommend_get_content(self, reply) ==
    [reply EXCEPT !.pager = Pager(reply.nitems > 0, self.page + 1, self.page,
                                  self.per_page, 0)]

\* get_content_model of the receiver's class on the server's answer.
get_content_model(self, reply) ==
    LET c == IF self.cls = "Recommend" THEN Recommend_get_content(self, reply) ELSE reply
    IN  ContentModel(ModelOf(self.cls), c.pager, c.nitems)

\* Search(...), Trending(...) or Recommend(...) by the caller.
Construct(cls, page, per_page) ==
    /\ recv' = CASE cls = "Search" -> Search("s1", "titanic", MOVIES, page, per_page)
                 [] cls = "Trending" -> Trending("s1", page, per_page)
                 [] OTHER -> Recommend("s1", "item1", page, per_page)
    /\ nav' = Nothing
    /\ origin' = Nothing
    /\ UNCHANGED content
    /\ UNCHANGED <<sessVars, envVars, searchVars, recVars, detVars, assetVars, planVars, runVars>>

\* recv.get_content_model(): one authenticated call on the Session, run to
\* its end (the handshake first when the flag is unset), and the model built
\* from the answer.
GetContent(hs, reply) ==
    /\ recv # Nothing
    /\ calls < MaxFetches
    /\ calls' = calls + 1
    /\ nav' = Nothing
    /\ LET need == ensure_needs_fetch(fetched)
           h == fetch_app_info(hs)
       IN
       IF need /\ h.kind = "raise"
       THEN /\ net' = [net EXCEPT !.hsSent = @ + 1, !.hsFailed = @ + 1, !.authCalls = @ + 1]
            /\ UNCHANGED <<fetched, appInfo, content>>
       ELSE /\ net' = [net EXCEPT !.hsSent = @ + (IF need THEN 1 ELSE 0),
                                  !.hsOk = @ + (IF need THEN 1 ELSE 0),
                                  !.authSent = @ + 1, !.authCalls = @ + 1]
            /\ fetched' = TRUE
            /\ appInfo' = IF need THEN h.value ELSE appInfo
            /\ content' = IF reply.ok THEN get_content_model(recv, reply) ELSE content
    /\ UNCHANGED <<recv, origin, tasks, lastDone>>
    /\ UNCHANGED <<envVars, searchVars, recVars, detVars, assetVars, planVars, runVars>>

\* recv.next_page(content)
NextPage ==
    /\ recv # Nothing /\ content # Nothing
    /\ LET r == next_page(recv, content) IN
       /\ nav' = [op |-> "next_page", self |-> recv, content |-> content,
                  out |-> r.out, isSelf |-> r.isSelf]
       /\ recv' = r.self
    /\ UNCHANGED <<content, origin>>
    /\ UNCHANGED <<sessVars, envVars, searchVars, recVars, detVars, assetVars, planVars, runVars>>

\* recv.previous_page(content)
PreviousPage ==
    /\ recv # Nothing /\ content # Nothing
    /\ LET r == previous_page(recv, content) IN
       /\ nav' = [op |-> "previous_page", self |-> recv, content |-> content,
                  out |-> r.out, isSelf |-> r.isSelf]
       /\ recv' = r.self
    /\ UNCHANGED <<content, origin>>
    /\ UNCHANGED <<sessVars, envVars, searchVars, recVars, detVars, assetVars, planVars, runVars>>

\* The caller goes on with the query that next_page or previous_page
\* returned.
Advance ==
    /\ nav # Nothing /\ nav.out.kind = "return"
    /\ recv' = nav.out.value
    /\ origin' = IF nav.op = "next_page" THEN nav.content.pager ELSE Nothing
    /\ nav' = Nothing
    /\ UNCHANGED content
    /\ UNCHANGED <<sessVars, envVars, searchVars, recVars, detVars, assetVars, planVars, runVars>>

InitPaging ==
    /\ SessInit /\ EnvIdle /\ PageIdle /\ SearchIdle
    /\ RecIdle /\ DetIdle /\ AssetIdle /\ PlanIdle /\ RunIdle

NextPaging ==
    \/ \E cls \in {"Search", "Trending", "Recommend"}, page \in 0..MaxPage,
          per_page \in PerPages : Construct(cls, page, per_page)
    \/ \E reply \in Replies :
          \E hs \in (IF ensure_needs_fetch(fetched)
                      THEN HandshakeReplies
                      ELSE {Response(200, EmptyBody)}) : GetContent(hs, reply)
    \/ NextPage
    \/ PreviousPage
    \/ Advance

SpecPaging == InitPaging /\ [][NextPaging]_vars


\* The call recorded in n was given the results model of the receiver's own
\* class (the call asserts it).
RightModel(n) == n.content.model = ModelOf(n.self.cls)

\* C6: next_page with pager.hasMore true returns a new query object whose
\* page is pager.nextPage and whose other parameters are the receiver's, and
\* leaves the receiver as it was.
C6_NextPageNewQuery ==
    (nav # Nothing /\ nav.op = "next_page" /\ RightModel(nav)
        /\ nav.content.pager.hasMore) =>
        /\ nav.out = Return([nav.self EXCEPT !.page = nav.content.pager.nextPage])
        /\ ~nav.isSelf
        /\ recv = nav.self

\* C6's case: a Recommend query at per_page 18 went on from a pager that says
\* perPage 24 and names a next page other than the query's own page + 1.
C6_Witness ==
    /\ nav # Nothing /\ nav.op = "next_page" /\ nav.self.cls = "Recommend"
    /\ nav.content.pager.hasMore /\ nav.out.kind = "return"
    /\ nav.self.per_page = 18 /\ nav.content.pager.perPage = 24
    /\ nav.content.pager.nextPage # nav.self.page + 1

\* C7: next_page with pager.hasMore false raises ExhaustedSearchResultsError,
\* sends no request (no handshake, no page fetch) and makes no new query.
C7_ExhaustedNoNetwork ==
    [][ (nav' # Nothing /\ nav'.op = "next_page" /\ RightModel(nav')
            /\ ~nav'.content.pager.hasMore) =>
            /\ nav'.out.kind = "raise"
            /\ nav'.out.exc = "ExhaustedSearchResultsError"
            /\ nav'.out.value = Nothing
            /\ net' = net /\ fetched' = fetched /\ calls' = calls
            /\ recv' = recv /\ recv' = nav'.self ]_vars

\* C7's case: a Trending query, its content fetched over the network, was
\* asked for the next page of a pager that has no more.
C7_Witness ==
    /\ nav # Nothing /\ nav.op = "next_page" /\ nav.self.cls = "Trending"
    /\ RightModel(nav) /\ ~nav.content.pager.hasMore
    /\ nav.out.exc = "ExhaustedSearchResultsError"
    /\ net.authSent > 0

\* C8: previous_page fails iff the pager's page is below 2 (Search,
\* Recommend) or below 1 (Trending); otherwise it returns a new query at that
\* page - 1 with the receiver's other parameters, so never a page below 1
\* (Search, Recommend) or below 0 (Trending).
C8_PreviousPageGuard ==
    (nav # Nothing /\ nav.op = "previous_page" /\ RightModel(nav)) =>
        LET pg == nav.content.pager.page
            trending == nav.self.cls = "Trending"
            fails == IF trending THEN pg < 1 ELSE pg < 2
        IN  /\ fails <=> nav.out.kind = "raise"
            /\ fails => nav.out.exc = "MovieboxApiException"
            /\ ~fails =>
                  /\ nav.out = Return([nav.self EXCEPT !.page = pg - 1])
                  /\ nav.out.value.page >= (IF trending THEN 0 ELSE 1)
                  /\ ~nav.isSelf
            /\ recv = nav.self

\* C8's case: Trending steps back from page 1 to page 0, where Search and
\* Recommend refuse.
C8_Witness ==
    /\ nav # Nothing /\ nav.op = "previous_page" /\ nav.self.cls = "Trending"
    /\ nav.content.pager.page = 1
    /\ nav.out.kind = "return" /\ nav.out.value.page = 0

\* The receiver was returned by next_page(origin) and previous_page has now
\* been called on it, legally, with a pager whose page is the receiver's.
RoundTrip ==
    /\ nav # Nothing /\ nav.op = "previous_page" /\ RightModel(nav)
    /\ origin # Nothing
    /\ nav.content.pager.page = nav.self.page
    /\ nav.out.kind = "return"

\* C9 as stated: next_page and then previous_page, both legal, give a query
\* at the page of the pager next_page was given.
C9_Original == RoundTrip => nav.out.value.page = origin.page

\* C9 as amended: next_page(p) and then previous_page, both legal, give a
\* query at page p.nextPage - 1, which is p.page for every pager p with
\* p.nextPage = p.page + 1.
C9_RoundTrip ==
    RoundTrip =>
        /\ nav.out.value.page = origin.nextPage - 1
        /\ origin.nextPage = origin.page + 1 => nav.out.value.page = origin.page

\* C9's case: a Recommend query went to the next page and back.
C9_Witness ==
    /\ RoundTrip /\ nav.self.cls = "Recommend"
    /\ origin.nextPage = origin.page + 1
    /\ nav.out.value.page = origin.page


(***************************************************************************)
(* helpers.is_valid_search_item / sanitize_item_name, Search.get_content   *)
(* Titles are sequences of characters.                                     *)
(***************************************************************************)

\* \s and \d, on the characters the titles of the model are made of.
IsSpace(ch) == ch \in {" ", "\t"}

IsDigit(ch) == ch \in {"0", "1", "2", "3", "4", "5", "6", "7", "8", "9"}

\* The length of the longest run of digits of t that starts at position i
\* (\d{1,} is greedy).
RECURSIVE DigitRun(_, _)
DigitRun(t, i) ==
    IF i <= Len(t) /\ IsDigit(t[i]) THEN 1 + DigitRun(t, i + 1) ELSE 0

\* The length of the match of \sS\d{1,} at position i of t, 0 for no match.
SeasonAt(t, i) ==
    IF i + 2 <= Len(t) /\ IsSpace(t[i]) /\ t[i + 1] = "S" /\ DigitRun(t, i + 2) >= 1
    THEN 2 + DigitRun(t, i + 2)
    ELSE 0

\* The length of the match of -S\d{1,} at position i of t, 0 for no match.
DashSeasonAt(t, i) ==
    IF i + 2 <= Len(t) /\ t[i] = "-" /\ t[i + 1] = "S" /\ DigitRun(t, i + 2) >= 1
    THEN 2 + DigitRun(t, i + 2)
    ELSE 0

\* The length of the match of \sS\d{1,}-S\d{1,} at position i, 0 for none.
SeasonRangeAt(t, i) ==
    IF SeasonAt(t, i) > 0 /\ DashSeasonAt(t, i + SeasonAt(t, i)) > 0
    THEN SeasonAt(t, i) + DashSeasonAt(t, i + SeasonAt(t, i))
    ELSE 0

\* UNWANTED_ITEM_NAME_PATTERN at position i: the first alternative, in the
\* order written, that matches there.
UnwantedAt(t, i) ==
    IF SeasonAt(t, i) > 0 THEN SeasonAt(t, i)
    ELSE IF SeasonRangeAt(t, i) > 0 THEN SeasonRangeAt(t, i)
    ELSE DashSeasonAt(t, i)

\* pattern.sub("", t) from position i on: matches are taken leftmost first
\* and do not overlap.
RECURSIVE SubFrom(_, _)
SubFrom(t, i) ==
    IF i > Len(t) THEN <<>>
    ELSE IF UnwantedAt(t, i) > 0 THEN SubFrom(t, i + UnwantedAt(t, i))
    ELSE <<t[i]>> \o SubFrom(t, i + 1)

\* The changed form that strips only a closing " S1".
sanitize_item_name_suffix_only(item_name) ==
    IF Len(item_name) >= 3 /\ SeasonAt(item_name, Len(item_name) - 2) = 3
          /\ item_name[Len(item_name)] = "1"
    THEN SubSeq(item_name, 1, Len(item_name) - 3)
    ELSE item_name

\* helpers.sanitize_item_name
sanitize_item_name(item_name) == SubFrom(item_name, 1)

\* SERIES_NAME_WITH_SEASON_NUMBER_PATTERN.match: ^.*\sS\d{1,}$
MatchesSeasonNumber(t) ==
    \E i \in 1..Len(t) : SeasonAt(t, i) > 0 /\ i + SeasonAt(t, i) - 1 = Len(t)

\* SERIES_NAME_WITH_SEASON_NUMBER_ONE_PATTERN.match: ^.*\sS1$
MatchesSeasonOne(t) ==
    /\ Len(t) >= 3
    /\ IsSpace(t[Len(t) - 2]) /\ t[Len(t) - 1] = "S" /\ t[Len(t)] = "1"

\* The changed form that lets every title through.
is_valid_search_item_any(item_name) == TRUE

\* helpers.is_valid_search_item
is_valid_search_item(item_name) ==
    IF MatchesSeasonNumber(item_name)
    THEN MatchesSeasonOne(item_name)
    ELSE TRUE

Item(st, title) == [subjectType |-> st, title |-> title]

\* The loop of Search.get_content over contents["items"].
RECURSIVE TargetItems(_, _)
TargetItems(subject_type, items) ==
    IF items = <<>> THEN <<>>
    ELSE LET item == Head(items)
             rest == TargetItems(subject_type, Tail(items))
         IN  IF item.subjectType = subject_type /\ is_valid_search_item(item.title)
             THEN <<[item EXCEPT !.title = sanitize_item_name(item.title)]>> \o rest
             ELSE rest

\* Search.get_content, from the unwrapped answer on: contents["items"] as
\* returned, or the ZeroSearchResultsError.
Search_get_content(subject_type, items) ==
    IF subject_type # ALL
    THEN IF items = <<>>
         THEN Raise("ZeroSearchResultsError", Nothing)
         ELSE Return([items |-> TargetItems(subject_type, items)])
    ELSE Return([items |-> items])

\* Titles a server may send: "A S2", "A S1", "M X", "A S1-S3", "A S2 x",
\* "A S11", "A S2 S1", "AS1" and "A<tab>S2".
Titles ==
    { <<"A", " ", "S", "2">>,
      <<"A", " ", "S", "1">>,
      <<"M", " ", "X">>,
      <<"A", " ", "S", "1", "-", "S", "3">>,
      <<"A", " ", "S", "2", " ", "x">>,
      <<"A", " ", "S", "1", "1">>,
      <<"A", " ", "S", "2", " ", "S", "1">>,
      <<"A", "S", "1">>,
      <<"A", "\t", "S", "2">> }

ServerItems == { Item(st, t) : st \in {MOVIES, TV_SERIES}, t \in Titles }

SearchInit == rawItems = <<>> /\ wanted \in {ALL, MOVIES, TV_SERIES} /\ searchOut = Nothing

\* The server's answer holds one more item.
ServerItem(it) ==
    /\ searchOut = Nothing
    /\ Len(rawItems) < MaxItems
    /\ rawItems' = Append(rawItems, it)
    /\ UNCHANGED <<wanted, searchOut>>
    /\ UNCHANGED <<sessVars, envVars, pageVars, recVars, detVars, assetVars, planVars, runVars>>

\* Search(session, query, subject_type).get_content() on that answer.
SearchGetContent ==
    /\ searchOut = Nothing
    /\ searchOut' = Search_get_content(wanted, rawItems)
    /\ UNCHANGED <<rawItems, wanted>>
    /\ UNCHANGED <<sessVars, envVars, pageVars, recVars, detVars, assetVars, planVars, runVars>>

\* Another search, with a subject type of the caller's choice.
NewSearch(st) ==
    /\ searchOut # Nothing
    /\ rawItems' = <<>>
    /\ wanted' = st
    /\ searchOut' = Nothing
    /\ UNCHANGED <<sessVars, envVars, pageVars, recVars, detVars, assetVars, planVars, runVars>>

InitSearch ==
    /\ SessInit /\ EnvIdle /\ PageIdle /\ SearchInit
    /\ RecIdle /\ DetIdle /\ AssetIdle /\ PlanIdle /\ RunIdle

NextSearch ==
    \/ \E it \in ServerItems : ServerItem(it)
    \/ SearchGetContent
    \/ \E st \in {ALL, MOVIES, TV_SERIES} : NewSearch(st)

SpecSearch == InitSearch /\ [][NextSearch]_vars


\* The claim's reading of the titles: a season suffix is a blank, "S" and
\* digits at the end of the title (a blank being any whitespace, as in the
\* patterns of helpers).
Claim_EndsInSeason(t) ==
    \E k \in 1..Len(t) :
        /\ k + 2 <= Len(t) /\ IsSpace(t[k]) /\ t[k + 1] = "S"
        /\ \A j \in (k + 2)..Len(t) : IsDigit(t[j])

Claim_EndsInS1(t) ==
    Len(t) >= 3 /\ IsSpace(t[Len(t) - 2]) /\ SubSeq(t, Len(t) - 1, Len(t)) = <<"S", "1">>

RECURSIVE Claim_Filtered(_, _)
Claim_Filtered(st, items) ==
    IF items = <<>> THEN <<>>
    ELSE LET it == Head(items)
             rest == Claim_Filtered(st, Tail(items))
         IN  CASE it.subjectType = st /\ ~Claim_EndsInSeason(it.title) -> <<it>> \o rest
               [] it.subjectType = st /\ Claim_EndsInS1(it.title) ->
                    <<[it EXCEPT !.title = SubSeq(@, 1, Len(@) - 3)]>> \o rest
               [] OTHER -> rest

\* C10 as stated: with a filter other than ALL the result holds, in the
\* server's order, the items of the requested type whose title has no season
\* suffix (title unchanged) or ends in " S1" (that suffix stripped), and no
\* other item; with ALL it holds the raw items as they came.
C10_Original ==
    (searchOut # Nothing /\ searchOut.kind = "return") =>
        searchOut.value.items =
            IF wanted = ALL THEN rawItems ELSE Claim_Filtered(wanted, rawItems)

\* A title ends in whitespace, "S" and one or more digits.
EndsWithSeason(t) ==
    \E k \in 1..Len(t) :
        /\ k + 2 <= Len(t) /\ IsSpace(t[k]) /\ t[k + 1] = "S"
        /\ \A j \in (k + 2)..Len(t) : IsDigit(t[j])

\* A title ends in whitespace and "S1".
EndsWithSeasonOne(t) ==
    Len(t) >= 3 /\ IsSpace(t[Len(t) - 2]) /\ SubSeq(t, Len(t) - 1, Len(t)) = <<"S", "1">>

RECURSIVE DropDigits(_)
DropDigits(t) == IF t # <<>> /\ IsDigit(Head(t)) THEN DropDigits(Tail(t)) ELSE t

\* t without its season tokens: whitespace or "-", then "S" and digits.
RECURSIVE WithoutSeasonTokens(_)
WithoutSeasonTokens(t) ==
    IF t = <<>> THEN <<>>
    ELSE IF Len(t) >= 3 /\ (IsSpace(t[1]) \/ t[1] = "-") /\ t[2] = "S" /\ IsDigit(t[3])
    THEN WithoutSeasonTokens(DropDigits(SubSeq(t, 3, Len(t))))
    ELSE <<Head(t)>> \o WithoutSeasonTokens(Tail(t))

\* The positions of the raw items a filter other than ALL keeps.
KeptPositions ==
    { i \in 1..Len(rawItems) :
        /\ rawItems[i].subjectType = wanted
        /\ (~EndsWithSeason(rawItems[i].title) \/ EndsWithSeasonOne(rawItems[i].title)) }

\* The j-th kept position, in the server's order.
KeptAt(j) == CHOOSE i \in KeptPositions : Cardinality({ k \in KeptPositions : k < i }) = j - 1

\* C10 as amended: with a filter other than ALL the result holds, in the
\* server's order, exactly the raw items of the requested type whose title
\* does not end in a season suffix (whitespace, "S", digits) or ends in
\* whitespace and "S1"; each kept title has every season token (whitespace
\* or "-", then "S" and digits), wherever it stands in the title, removed, so
\* that a title is unchanged only when it holds none; with ALL the raw items
\* come back as they are.
C10_SearchFilter ==
    (searchOut # Nothing /\ searchOut.kind = "return") =>
        LET out == searchOut.value.items IN
        IF wanted = ALL THEN out = rawItems
        ELSE /\ Len(out) = Cardinality(KeptPositions)
             /\ \A j \in 1..Len(out) :
                   /\ out[j].subjectType = wanted
                   /\ out[j].title = WithoutSeasonTokens(rawItems[KeptAt(j)].title)
                   /\ out[j] = [rawItems[KeptAt(j)] EXCEPT !.title = out[j].title]

\* C10's case: the answer "A S2", "A S1" (both series) and "M X" (a movie),
\* filtered for series, gave the one item "A".
C10_Witness ==
    /\ wanted = TV_SERIES
    /\ rawItems = << Item(TV_SERIES, <<"A", " ", "S", "2">>),
                     Item(TV_SERIES, <<"A", " ", "S", "1">>),
                     Item(MOVIES, <<"M", " ", "X">>) >>
    /\ searchOut = Return([items |-> << Item(TV_SERIES, <<"A">>) >>])


\* C11: Search.get_content with a filter other than ALL fails with
\* ZeroSearchResultsError whenever the filtered item set is empty, be it
\* that the raw list was empty or that every raw item was dropped; it never
\* returns a result with an empty item list.
C11_ZeroResultsWhenFilteredEmpty ==
    (searchOut # Nothing /\ wanted # ALL /\ KeptPositions = {}) =>
        searchOut = Raise("ZeroSearchResultsError", Nothing)


(***************************************************************************)
(* SpecRecommend: Recommend.get_content against a server that holds a      *)
(* finite list of items and serves it in pages of perPage, pages counted   *)
(* from 1                                                                  *)
(***************************************************************************)

\* Items the server holds at most.
MaxShelf == 4

\* The highest page a caller constructs a Recommend with.
MaxRecPage == 3

\* per_page values of the caller, small enough for the list to span pages.
RecPerPages == {1, 2}

\* How many items the server puts in the answer to _create_payload's
\* {page, perPage}, out of n.
ItemsOnPage(n, page, per_page) ==
    LET before == (page - 1) * per_page
    IN  IF n <= before THEN 0
        ELSE IF n - before >= per_page THEN per_page ELSE n - before

\* The "pager" key of the answer: missing, or whatever the server put there.
SentPagers == {Nothing, Pager(FALSE, 1, 1, 24, 9), Pager(TRUE, 2, 1, 1, 0)}

RecInit == shelf \in 0..MaxShelf /\ rquery = Nothing /\ rfetch = Nothing

\* Recommend(session, item, page, per_page)
RecConstruct(page, per_page) ==
    /\ rquery' = Recommend("s1", "item1", page, per_page)
    /\ rfetch' = Nothing
    /\ UNCHANGED shelf
    /\ UNCHANGED <<sessVars, envVars, pageVars, searchVars, detVars, assetVars, planVars, runVars>>

\* rquery.get_content_model(): the request fails, or the server answers with
\* its items of that page and get_content puts its pager on the answer.
RecGetContent(ok, sent) ==
    /\ rquery # Nothing
    /\ LET reply == [ok |-> ok, pager |-> sent,
                     nitems |-> ItemsOnPage(shelf, rquery.page, rquery.per_page)]
       IN  rfetch' = [self |-> rquery, sent |-> reply, exhausted |-> FALSE,
                      out |-> IF ok THEN Return(get_content_model(rquery, reply))
                              ELSE Raise("HTTPStatusError", Nothing)]
    /\ UNCHANGED <<shelf, rquery>>
    /\ UNCHANGED <<sessVars, envVars, pageVars, searchVars, detVars, assetVars, planVars, runVars>>

\* rquery = rquery.next_page(content) on the content just fetched.
RecNextPage ==
    /\ rfetch # Nothing /\ rfetch.out.kind = "return" /\ ~rfetch.exhausted
    /\ LET r == Recommend_next_page(rquery, rfetch.out.value) IN
       IF r.out.kind = "return"
       THEN rquery' = r.out.value /\ rfetch' = Nothing
       ELSE rquery' = r.self /\ rfetch' = [rfetch EXCEPT !.exhausted = TRUE]
    /\ UNCHANGED shelf
    /\ UNCHANGED <<sessVars, envVars, pageVars, searchVars, detVars, assetVars, planVars, runVars>>

InitRecommend ==
    /\ SessInit /\ EnvIdle /\ PageIdle /\ SearchIdle
    /\ RecInit /\ DetIdle /\ AssetIdle /\ PlanIdle /\ RunIdle

NextRecommend ==
    \/ \E page \in 1..MaxRecPage, per_page \in RecPerPages : RecConstruct(page, per_page)
    \/ \E ok \in BOOLEAN, sent \in SentPagers : RecGetContent(ok, sent)
    \/ RecNextPage

SpecRecommend == InitRecommend /\ [][NextRecommend]_vars

\* C12: after every successful Recommend.get_content at page P with page
\* size S the content's pager is exactly {hasMore: the item list is not
\* empty, nextPage: P + 1, page: P, perPage: S, totalCount: 0}, whatever
\* pager the server sent.
C12_SynthesizedPager ==
    (rfetch # Nothing /\ rfetch.out.kind = "return") =>
        /\ rfetch.out.value.nitems = rfetch.sent.nitems
        /\ rfetch.out.value.pager =
              Pager(rfetch.sent.nitems > 0, rfetch.self.page + 1, rfetch.self.page,
                    rfetch.self.per_page, 0)

\* C12's case: the server sent a pager of its own, with other numbers, and
\* the fetch succeeded.
C12_Witness ==
    /\ rfetch # Nothing /\ rfetch.out.kind = "return"
    /\ rfetch.sent.pager = Pager(FALSE, 1, 1, 24, 9)
    /\ rfetch.sent.nitems > 0
    /\ rfetch.self.page = 2

\* C13: for every fetched page the synthesized pager's hasMore is true if and
\* only if the server's answer to the subsequent page (nextPage) holds at
\* least one item.
C13_HasMoreIffNextPageNonEmpty ==
    (rfetch # Nothing /\ rfetch.out.kind = "return") =>
        LET pager == rfetch.out.value.pager IN
        pager.hasMore <=> ItemsOnPage(shelf, pager.nextPage, rfetch.self.per_page) > 0


(***************************************************************************)
(* SpecDetails: MovieDetails / TVSeriesDetails, their construction and the *)
(* page body they cache                                                    *)
(***************************************************************************)

\* Requests for the detail page one details object sends at most in a run.
MaxPageReqs == 3

\* constants.ITEM_DETAILS_PATH
ITEM_DETAILS_PATH == "/detail"

\* The digits VALID_ITEM_PAGE_URL_PATTERN wants of an id: \d{17,}
MinIdDigits == 17

\* A page url, by its parts: what stands before the slug, the slug (a
\* sequence of characters), and the id of its "?id=" query when it has one.
Url(prefix, slug, id) == [prefix |-> prefix, slug |-> slug, id |-> id]

NoId == [has |-> FALSE, val |-> ""]

\* \w of the characters that slugs of the model are made of.
IsWordChar(ch) == ch \in {"t", "1", "_"}

\* detailPath values: "t-1" and "t 1".
DetailPaths == { <<"t", "-", "1">>, <<"t", " ", "1">> }

\* subjectId values, all of digits: one of 19 digits and one of 2.
SubjectIds == {"5083915395167490320", "42"}

\* What a url given as a string starts with; the first two end in
\* ITEM_DETAILS_PATH.
UrlPrefixes == {"/detail", "https://moviebox.ph/detail", "/movies"}

\* VALID_ITEM_PAGE_URL_PATTERN: ^.*/detail/[\w-]+(?:\?id\=\d{17,}.*)?$
MatchesItemPageUrl(url) ==
    /\ url.prefix \in {"/detail", "https://moviebox.ph/detail"}
    /\ Len(url.slug) >= 1
    /\ \A i \in 1..Len(url.slug) : IsWordChar(url.slug[i]) \/ url.slug[i] = "-"
    /\ url.id.has => Len(url.id.val) >= MinIdDigits

\* helpers.validate_item_page_url
validate_item_page_url(url) ==
    IF MatchesItemPageUrl(url)
    THEN Return(url)
    ELSE Raise("ValueError", [msg |-> "Invalid url for a specific item page"])

\* A SearchResultsItem, by the fields the constructors read.
DetailsItem(st, detailPath, subjectId) ==
    [isItem |-> TRUE, subjectType |-> st, detailPath |-> detailPath, subjectId |-> subjectId]

\* A url_or_item that is a str.
DetailsUrl(url) == [isItem |-> FALSE, url |-> url]

\* SearchResultsItem.page_url
page_url(item) == Url(ITEM_DETAILS_PATH, item.detailPath, Some(item.subjectId))

\* BaseItemDetails.__init__: the attributes of the new object, or the
\* ValueError of the url check, raised before any attribute is assigned.
BaseItemDetails_init(cls, url) ==
    LET v == validate_item_page_url(url) IN
    IF v.kind = "return"
    THEN [out |-> Return(Nothing),
          obj |-> [cls |-> cls, url |-> v.value, html |-> Nothing,
                   okFetches |-> 0, sentWhileCached |-> 0, overlapped |-> FALSE,
                   firstBody |-> Nothing]]
    ELSE [out |-> v, obj |-> Nothing]

\* The subject type a details class takes items of.
ExpectedSubjectType(cls) == IF cls = "MovieDetails" THEN MOVIES ELSE TV_SERIES

\* The changed constructor that takes an item of any subject type.
Details_init_unchecked(cls, arg) ==
    BaseItemDetails_init(cls, IF arg.isItem THEN page_url(arg) ELSE arg.url)

\* MovieDetails.__init__ and TVSeriesDetails.__init__
Details_init(cls, arg) ==
    IF arg.isItem /\ arg.subjectType # ExpectedSubjectType(cls)
    THEN [out |-> Raise("ValueError", [msg |-> "item needs to be of subjectType"]),
          obj |-> Nothing]
    ELSE BaseItemDetails_init(cls, IF arg.isItem THEN page_url(arg) ELSE arg.url)

\* The methods of BaseItemDetails that use the page body.
DetailMethods ==
    {"get_html_content", "get_content", "get_content_model",
     "get_tag_details_extractor", "get_json_details_extractor",
     "get_tag_details_extractor_model", "get_json_details_extractor_model"}

\* What a method makes of the page body html: the body itself, or an
\* extractor (or its details) built from it.
Derived(method, html) ==
    CASE method = "get_html_content" -> [by |-> "str", from |-> html]
      [] method = "get_content" -> [by |-> "JsonDetailsExtractor.details", from |-> html]
      [] method = "get_content_model" -> [by |-> "JsonDetailsExtractorModel.details", from |-> html]
      [] method = "get_tag_details_extractor" -> [by |-> "TagDetailsExtractor", from |-> html]
      [] method = "get_json_details_extractor" -> [by |-> "JsonDetailsExtractor", from |-> html]
      [] method = "get_tag_details_extractor_model" -> [by |-> "TagDetailsExtractorModel", from |-> html]
      [] OTHER -> [by |-> "JsonDetailsExtractorModel", from |-> html]

\* A response body that is a page.
HtmlBody(text) == [empty |-> FALSE, json |-> Nothing, text |-> text]

\* response.text
response_text(resp) == [text |-> resp.body.text]

PageResponses ==
    { Response(st, b) : st \in Statuses, b \in {EmptyBody, HtmlBody("page-a"), HtmlBody("page-b")} }

\* The changed test that never finds the body cached.
html_content_cached_never(html) == FALSE

\* get_html_content: `if self.__html_content is not None`
html_content_cached(html) == html # Nothing

DetailsArgs ==
    { DetailsItem(st, dp, id) : st \in {MOVIES, TV_SERIES}, dp \in DetailPaths, id \in SubjectIds }
    \cup { DetailsUrl(Url(p, <<"t", "-", "1">>, NoId)) : p \in UrlPrefixes }

\* MovieDetails(url_or_item, session) or TVSeriesDetails(url_or_item, session),
\* while no call on the object in hand is under way.
DetailsConstruct(cls, arg) ==
    /\ \A t \in Tasks : dtasks[t] = Nothing
    /\ LET r == Details_init(cls, arg) IN
       /\ built' = [cls |-> cls, arg |-> arg, out |-> r.out]
       /\ resolver' = r.obj
    /\ pageReqs' = 0
    /\ dlast' = Nothing
    /\ UNCHANGED dtasks
    /\ UNCHANGED <<sessVars, envVars, pageVars, searchVars, recVars, assetVars, planVars, runVars>>

\* A method of the object is called and runs to its first await or to its
\* end: with the body cached it returns what it makes of it; without, it
\* enters Session.get_with_cookies, which does the handshake when the flag is
\* unset (hs is the answer to it) and then sends the request for the page.
DetailsCall(t, method, hs) ==
    /\ resolver # Nothing
    /\ dtasks[t] = Nothing
    /\ LET busy == \E u \in Tasks : dtasks[u] # Nothing
           need == ensure_needs_fetch(fetched)
           h == fetch_app_info(hs)
       IN
       IF html_content_cached(resolver.html)
       THEN /\ dlast' = [task |-> t, method |-> method, cached |-> TRUE,
                         out |-> Return(Derived(method, resolver.html))]
            /\ resolver' = [resolver EXCEPT !.overlapped = @ \/ busy]
            /\ UNCHANGED <<dtasks, pageReqs, fetched, appInfo>>
       ELSE IF need /\ h.kind = "raise"
       THEN /\ dlast' = [task |-> t, method |-> method, cached |-> FALSE, out |-> h]
            /\ resolver' = [resolver EXCEPT !.overlapped = @ \/ busy]
            /\ UNCHANGED <<dtasks, pageReqs, fetched, appInfo>>
       ELSE /\ pageReqs < MaxPageReqs
            /\ pageReqs' = pageReqs + 1
            /\ dtasks' = [dtasks EXCEPT ![t] = [method |-> method]]
            /\ resolver' = [resolver EXCEPT
                               !.overlapped = @ \/ busy,
                               !.sentWhileCached = @ + (IF resolver.html # Nothing THEN 1 ELSE 0)]
            /\ fetched' = TRUE
            /\ appInfo' = IF need THEN h.value ELSE appInfo
            /\ UNCHANGED dlast
    /\ UNCHANGED <<built, tasks, net, calls, lastDone>>
    /\ UNCHANGED <<envVars, pageVars, searchVars, recVars, assetVars, planVars, runVars>>

\* The answer to the page request of task t: get_with_cookies raises for a
\* status that is not a success or for an empty body; otherwise
\* get_html_content stores response.text and the method returns what it
\* makes of it.
DetailsResponse(t, resp) ==
    /\ dtasks[t] # Nothing
    /\ LET r == after_raise_for_status(resp, validate_response(resp))
           method == dtasks[t].method
       IN
       IF r.kind = "return"
       THEN LET html == response_text(r.value) IN
            /\ resolver' = [resolver EXCEPT
                               !.html = html,
                               !.okFetches = @ + 1,
                               !.firstBody = IF @ = Nothing THEN html ELSE @]
            /\ dlast' = [task |-> t, method |-> method, cached |-> FALSE,
                         out |-> Return(Derived(method, html))]
       ELSE /\ dlast' = [task |-> t, method |-> method, cached |-> FALSE, out |-> r]
            /\ UNCHANGED resolver
    /\ dtasks' = [dtasks EXCEPT ![t] = Nothing]
    /\ UNCHANGED <<built, pageReqs>>
    /\ UNCHANGED <<sessVars, envVars, pageVars, searchVars, recVars, assetVars, planVars, runVars>>

InitDetails ==
    /\ SessInit /\ EnvIdle /\ PageIdle /\ SearchIdle
    /\ RecIdle /\ DetIdle /\ AssetIdle /\ PlanIdle /\ RunIdle

NextDetails ==
    \/ \E cls \in {"MovieDetails", "TVSeriesDetails"}, arg \in DetailsArgs :
          DetailsConstruct(cls, arg)
    \/ \E t \in Tasks, method \in DetailMethods :
          \E hs \in (IF ensure_needs_fetch(fetched)
                      THEN HandshakeReplies
                      ELSE {Response(200, EmptyBody)}) : DetailsCall(t, method, hs)
    \/ \E t \in Tasks, resp \in PageResponses : DetailsResponse(t, resp)

SpecDetails == InitDetails /\ [][NextDetails]_vars


\* No call on the object in hand has started while another was under way.
SequentialUse == resolver # Nothing /\ ~resolver.overlapped

\* Right after a construction: no method has been called yet.
JustBuilt == built # Nothing /\ dlast = Nothing /\ \A t \in Tasks : dtasks[t] = Nothing

\* What holds of the cached body in sequential use: it is stored by one
\* successful fetch, never replaced, no request is sent while it is there,
\* and a call that returns gives what its method makes of that body.
CachedBodyReused ==
    /\ resolver.okFetches <= 1
    /\ resolver.sentWhileCached = 0
    /\ resolver.html # Nothing <=> resolver.okFetches = 1
    /\ resolver.html # Nothing => resolver.html = resolver.firstBody
    /\ (dlast # Nothing /\ dlast.out.kind = "return") =>
          /\ resolver.html # Nothing
          /\ dlast.out.value = Derived(dlast.method, resolver.firstBody)

\* C14 as stated: constructing sends no request, and in sequential use the
\* detail page is requested at most once per object, every call after the
\* first successful fetch returning data made from the one cached body.
C14_Original ==
    /\ JustBuilt => pageReqs = 0
    /\ SequentialUse => (pageReqs <= 1 /\ CachedBodyReused)

\* C14 as amended: constructing sends no request and caches nothing; in
\* sequential use at most one request for the detail page is answered
\* successfully and none is sent once the body is cached, while a call whose
\* fetch fails caches nothing, so that the next call requests the page again;
\* every call that returns, the first successful one and all after it, gives
\* data made from the one cached body.
C14_CacheSequential ==
    /\ JustBuilt => (pageReqs = 0 /\ (resolver # Nothing => resolver.html = Nothing))
    /\ SequentialUse => CachedBodyReused
    /\ (SequentialUse /\ resolver.html = Nothing /\ dlast # Nothing) => dlast.out.kind = "raise"

\* C14's case: in sequential use a first fetch failed, a second one stored the
\* body, and a later call was answered from the cache.
C14_Witness ==
    /\ SequentialUse
    /\ pageReqs = 2 /\ resolver.okFetches = 1
    /\ dlast # Nothing /\ dlast.cached /\ dlast.out.kind = "return"
    /\ dlast.method = "get_tag_details_extractor"

\* C15: MovieDetails of an item that is not a movie, and TVSeriesDetails of an
\* item that is not a series, raise a ValueError at construction, with no
\* object made and no request sent; with an item of the right type the url
\* handed to BaseItemDetails is the item's page_url,
\* /detail/{detailPath}?id={subjectId}, which is the url of the object when
\* the construction returns.
C15_TypeCheckedConstruction ==
    (built # Nothing /\ built.arg.isItem) =>
        IF built.arg.subjectType # (IF built.cls = "MovieDetails" THEN MOVIES ELSE TV_SERIES)
        THEN /\ built.out = Raise("ValueError", [msg |-> "item needs to be of subjectType"])
             /\ resolver = Nothing
             /\ pageReqs = 0
             /\ \A t \in Tasks : dtasks[t] = Nothing
        ELSE LET url == Url("/detail", built.arg.detailPath, Some(built.arg.subjectId)) IN
             IF built.out.kind = "return"
             THEN resolver # Nothing /\ resolver.url = url /\ resolver.cls = built.cls
             ELSE /\ built.out = Raise("ValueError", [msg |-> "Invalid url for a specific item page"])
                  /\ ~MatchesItemPageUrl(url)
                  /\ resolver = Nothing

\* C15's case: MovieDetails was given a series item, after an object built
\* from a movie item had fetched its page.
C15_Witness ==
    /\ built # Nothing /\ built.cls = "MovieDetails"
    /\ built.arg = DetailsItem(TV_SERIES, <<"t", "-", "1">>, "5083915395167490320")
    /\ built.out.kind = "raise"
    /\ fetched


(***************************************************************************)
(* SpecAssets: DownloadableFilesMetadata (best / worst media file, the     *)
(* quality map, the subtitle lookup) and                                   *)
(* resolve_media_file_to_be_downloaded                                     *)
(***************************************************************************)

\* Media files a bundle holds at most.
MaxDownloads == 3

\* Caption files a bundle holds at most.
MaxCaptions == 2

\* constants.DOWNLOAD_QUALITIES
DOWNLOAD_QUALITIES == <<"WORST", "BEST", "360P", "480P", "720P", "1080P">>

\* `quality in DOWNLOAD_QUALITIES`
InDownloadQualities(quality) == \E i \in 1..Len(DOWNLOAD_QUALITIES) : DOWNLOAD_QUALITIES[i] = quality

\* MediaFileMetadata.resolution values of the server.
Resolutions == {360, 720, 1080, 2160}

\* A MediaFileMetadata; the id tells two files of one resolution apart.
MediaFile(id, resolution) == [id |-> id, resolution |-> resolution]

\* A CaptionFileMetadata; lan and lanName are sequences of characters.
CaptionFile(id, lan, lanName) == [id |-> id, lan |-> lan, lanName |-> lanName]

\* The languages of the server's captions: en / English and fr / French.
Languages ==
    { [lan |-> <<"e", "n">>, lanName |-> <<"E", "n", "g", "l", "i", "s", "h">>],
      [lan |-> <<"f", "r">>, lanName |-> <<"F", "r", "e", "n", "c", "h">>] }

\* The letters of the model, upper case and lower case in the same order.
UpperLetters == <<"E", "N", "G", "L", "I", "S", "H", "F", "R", "C", "D">>

LowerLetters == <<"e", "n", "g", "l", "i", "s", "h", "f", "r", "c", "d">>

\* str.lower and str.upper of one character.
LowerChar(ch) ==
    IF \E i \in 1..Len(UpperLetters) : UpperLetters[i] = ch
    THEN LowerLetters[CHOOSE i \in 1..Len(UpperLetters) : UpperLetters[i] = ch]
    ELSE ch

UpperChar(ch) ==
    IF \E i \in 1..Len(LowerLetters) : LowerLetters[i] = ch
    THEN UpperLetters[CHOOSE i \in 1..Len(LowerLetters) : LowerLetters[i] = ch]
    ELSE ch

\* str.lower
Lower(s) == [i \in 1..Len(s) |-> LowerChar(s[i])]

\* str.capitalize: the first character upper case, the others lower case.
Capitalize(s) == [i \in 1..Len(s) |-> IF i = 1 THEN UpperChar(s[i]) ELSE LowerChar(s[i])]

\* A dict filled by `for x in items: d[key(x)] = x`: a later item replaces an
\* earlier one of the same key.
RECURSIVE DictOfPairs(_)
DictOfPairs(pairs) ==
    IF pairs = <<>> THEN <<>>
    ELSE LET n == Len(pairs) IN
         (pairs[n][1] :> pairs[n][2]) @@ DictOfPairs(SubSeq(pairs, 1, n - 1))

\* dict.get(key): the value or None
Get(dict, key) == IF key \in DOMAIN dict THEN dict[key] ELSE Nothing

\* f"{item.resolution}P"
QualityOf(item) == ToString(item.resolution) \o "P"

\* DownloadableFilesMetadata._check_downloads
check_downloads(files) ==
    IF files # <<>>
    THEN Return([bool |-> TRUE])
    ELSE Raise("ZeroMediaFileError", Nothing)

\* The loop of best_media_file with >= for >: the last of the highest.
RECURSIVE ScanBestLast(_, _)
ScanBestLast(found, rest) ==
    IF rest = <<>> THEN found
    ELSE ScanBestLast(IF Head(rest).resolution >= found.resolution THEN Head(rest) ELSE found,
                      Tail(rest))

\* The loop of best_media_file over self.downloads[1:]
RECURSIVE ScanBest(_, _)
ScanBest(found, rest) ==
    IF rest = <<>> THEN found
    ELSE ScanBest(IF Head(rest).resolution > found.resolution THEN Head(rest) ELSE found,
                  Tail(rest))

\* The loop of worst_media_file over self.downloads[1:]
RECURSIVE ScanWorst(_, _)
ScanWorst(found, rest) ==
    IF rest = <<>> THEN found
    ELSE ScanWorst(IF Head(rest).resolution < found.resolution THEN Head(rest) ELSE found,
                   Tail(rest))

\* The changed best_media_file that keeps the last of the highest.
best_media_file_last(files) ==
    LET c == check_downloads(files) IN
    IF c.kind = "raise" THEN c ELSE Return(ScanBestLast(Head(files), Tail(files)))

\* DownloadableFilesMetadata.best_media_file
best_media_file(files) ==
    LET c == check_downloads(files) IN
    IF c.kind = "raise" THEN c ELSE Return(ScanBest(Head(files), Tail(files)))

\* DownloadableFilesMetadata.worst_media_file
worst_media_file(files) ==
    LET c == check_downloads(files) IN
    IF c.kind = "raise" THEN c ELSE Return(ScanWorst(Head(files), Tail(files)))

\* The changed map in which the first file of a quality stays.
get_quality_downloads_map_first(files) ==
    DictOfPairs([i \in 1..Len(files) |->
                    <<QualityOf(files[Len(files) + 1 - i]), files[Len(files) + 1 - i]>>])

\* DownloadableFilesMetadata.get_quality_downloads_map
get_quality_downloads_map(files) ==
    DictOfPairs([i \in 1..Len(files) |-> <<QualityOf(files[i]), files[i]>>])

\* The changed resolve that looks every quality but BEST and WORST up in the
\* map of the bundle.
resolve_any_quality(quality, files) ==
    CASE quality = "BEST" -> best_media_file(files)
      [] quality = "WORST" -> worst_media_file(files)
      [] OTHER ->
           LET target_metadata == Get(get_quality_downloads_map(files), quality) IN
           IF target_metadata = Nothing
           THEN Raise("AttributeError", Nothing)
           ELSE Return(target_metadata)

\* download.resolve_media_file_to_be_downloaded. For a quality of the tuple
\* that the bundle lacks, the message of the RuntimeError is made with
\* target_metadata.keys(), target_metadata being None: that raises
\* AttributeError, and the RuntimeError is never made.
resolve_media_file_to_be_downloaded(quality, files) ==
    CASE quality = "BEST" -> best_media_file(files)
      [] quality = "WORST" -> worst_media_file(files)
      [] OTHER ->
           IF InDownloadQualities(quality)
           THEN LET target_metadata == Get(get_quality_downloads_map(files), quality) IN
                IF target_metadata = Nothing
                THEN Raise("AttributeError", Nothing)
                ELSE Return(target_metadata)
           ELSE Raise("ValueError", [allowed |-> DOWNLOAD_QUALITIES])

\* DownloadableFilesMetadata.get_language_subtitle_map
get_language_subtitle_map(caps) ==
    DictOfPairs([i \in 1..Len(caps) |-> <<caps[i].lanName, caps[i]>>])

\* DownloadableFilesMetadata.get_language_short_subtitle_map
get_language_short_subtitle_map(caps) ==
    DictOfPairs([i \in 1..Len(caps) |-> <<caps[i].lan, caps[i]>>])

\* The changed lookup that takes the input as it is written.
get_subtitle_by_language_verbatim(language, caps) ==
    IF Len(language) = 2
    THEN Return(Get(get_language_short_subtitle_map(caps), language))
    ELSE Return(Get(get_language_subtitle_map(caps), language))

\* DownloadableFilesMetadata.get_subtitle_by_language
get_subtitle_by_language(language, caps) ==
    IF Len(language) = 2
    THEN Return(Get(get_language_short_subtitle_map(caps), Lower(language)))
    ELSE Return(Get(get_language_subtitle_map(caps), Capitalize(language)))

\* The quality arguments of callers: the six of the tuple, one the tuple
\* lacks, and two of the wrong case.
AskedQualities == {"WORST", "BEST", "360P", "480P", "720P", "1080P", "2160P", "best", "720p"}

\* The language arguments of callers: en, EN, English, english, ENGLISH, fr,
\* de, and the empty string.
AskedLanguages ==
    { <<"e", "n">>, <<"E", "N">>,
      <<"E", "n", "g", "l", "i", "s", "h">>, <<"e", "n", "g", "l", "i", "s", "h">>,
      <<"E", "N", "G", "L", "I", "S", "H">>,
      <<"f", "r">>, <<"d", "e">>, <<>> }

\* The server's answer holds one more media file.
AddDownload(res) ==
    /\ asked = Nothing
    /\ Len(downloads) < MaxDownloads
    /\ downloads' = Append(downloads, MediaFile(Len(downloads) + 1, res))
    /\ UNCHANGED <<captions, asked, resolved>>
    /\ UNCHANGED <<sessVars, envVars, pageVars, searchVars, recVars, detVars, planVars, runVars>>

\* The server's answer holds one more caption file.
AddCaption(l) ==
    /\ asked = Nothing
    /\ Len(captions) < MaxCaptions
    /\ captions' = Append(captions, CaptionFile(Len(captions) + 1, l.lan, l.lanName))
    /\ UNCHANGED <<downloads, asked, resolved>>
    /\ UNCHANGED <<sessVars, envVars, pageVars, searchVars, recVars, detVars, planVars, runVars>>

\* metadata.best_media_file
AskBest ==
    /\ asked' = [op |-> "best_media_file", arg |-> Nothing]
    /\ resolved' = best_media_file(downloads)
    /\ UNCHANGED <<downloads, captions>>
    /\ UNCHANGED <<sessVars, envVars, pageVars, searchVars, recVars, detVars, planVars, runVars>>

\* metadata.worst_media_file
AskWorst ==
    /\ asked' = [op |-> "worst_media_file", arg |-> Nothing]
    /\ resolved' = worst_media_file(downloads)
    /\ UNCHANGED <<downloads, captions>>
    /\ UNCHANGED <<sessVars, envVars, pageVars, searchVars, recVars, detVars, planVars, runVars>>

\* resolve_media_file_to_be_downloaded(quality, metadata)
Resolve(quality) ==
    /\ asked' = [op |-> "resolve", arg |-> [quality |-> quality]]
    /\ resolved' = resolve_media_file_to_be_downloaded(quality, downloads)
    /\ UNCHANGED <<downloads, captions>>
    /\ UNCHANGED <<sessVars, envVars, pageVars, searchVars, recVars, detVars, planVars, runVars>>

\* metadata.get_subtitle_by_language(language)
GetSubtitle(language) ==
    /\ asked' = [op |-> "get_subtitle_by_language", arg |-> [language |-> language]]
    /\ resolved' = get_subtitle_by_language(language, captions)
    /\ UNCHANGED <<downloads, captions>>
    /\ UNCHANGED <<sessVars, envVars, pageVars, searchVars, recVars, detVars, planVars, runVars>>

\* The files detail of another item is fetched.
NewBundle ==
    /\ asked # Nothing
    /\ downloads' = <<>> /\ captions' = <<>> /\ asked' = Nothing /\ resolved' = Nothing
    /\ UNCHANGED <<sessVars, envVars, pageVars, searchVars, recVars, detVars, planVars, runVars>>

InitAssets ==
    /\ SessInit /\ EnvIdle /\ PageIdle /\ SearchIdle
    /\ RecIdle /\ DetIdle /\ AssetIdle /\ PlanIdle /\ RunIdle

NextAssets ==
    \/ \E res \in Resolutions : AddDownload(res)
    \/ \E l \in Languages : AddCaption(l)
    \/ AskBest
    \/ AskWorst
    \/ \E quality \in AskedQualities : Resolve(quality)
    \/ \E language \in AskedLanguages : GetSubtitle(language)
    \/ NewBundle

SpecAssets == InitAssets /\ [][NextAssets]_vars


\* The resolution a numeric quality of the enumeration stands for.
NumericQualities == {"360P", "480P", "720P", "1080P"}

ResolutionOf(quality) ==
    CASE quality = "360P" -> 360
      [] quality = "480P" -> 480
      [] quality = "720P" -> 720
      [] OTHER -> 1080

\* The positions of the bundle's files of resolution r.
FilesOf(r) == { i \in 1..Len(downloads) : downloads[i].resolution = r }

\* file is the first of the bundle's files whose resolution no other file
\* exceeds (high) or undercuts (low).
FirstOfHighest(file) ==
    \E i \in 1..Len(downloads) :
        /\ downloads[i] = file
        /\ \A j \in 1..Len(downloads) : downloads[j].resolution <= file.resolution
        /\ \A j \in 1..(i - 1) : downloads[j].resolution < file.resolution

FirstOfLowest(file) ==
    \E i \in 1..Len(downloads) :
        /\ downloads[i] = file
        /\ \A j \in 1..Len(downloads) : downloads[j].resolution >= file.resolution
        /\ \A j \in 1..(i - 1) : downloads[j].resolution > file.resolution

\* C16: for a bundle with media files best_media_file returns a file of the
\* highest resolution of the list and worst_media_file one of the lowest, the
\* first such file in list order when several tie; for a bundle with none
\* both raise ZeroMediaFileError.
C16_BestWorst ==
    /\ (asked # Nothing /\ asked.op = "best_media_file") =>
          IF downloads = <<>>
          THEN resolved.kind = "raise" /\ resolved.exc = "ZeroMediaFileError"
          ELSE resolved.kind = "return" /\ FirstOfHighest(resolved.value)
    /\ (asked # Nothing /\ asked.op = "worst_media_file") =>
          IF downloads = <<>>
          THEN resolved.kind = "raise" /\ resolved.exc = "ZeroMediaFileError"
          ELSE resolved.kind = "return" /\ FirstOfLowest(resolved.value)

\* C16's case: of the files 1080, 360, 1080 the best is the first.
C16_Witness ==
    /\ downloads = <<MediaFile(1, 1080), MediaFile(2, 360), MediaFile(3, 1080)>>
    /\ asked # Nothing /\ asked.op = "best_media_file"
    /\ resolved = Return(MediaFile(1, 1080))

\* C17: resolve_media_file_to_be_downloaded with a numeric quality of the
\* enumeration returns a file of that resolution when the bundle has one, and
\* fails with a RuntimeError (whose message lists the qualities the bundle
\* has) when it has none.
C17_NumericQuality ==
    (asked # Nothing /\ asked.op = "resolve" /\ asked.arg.quality \in NumericQualities) =>
        IF FilesOf(ResolutionOf(asked.arg.quality)) # {}
        THEN /\ resolved.kind = "return"
             /\ \E i \in FilesOf(ResolutionOf(asked.arg.quality)) : resolved.value = downloads[i]
        ELSE resolved.kind = "raise" /\ resolved.exc = "RuntimeError"

\* C18: the dispatch of resolve_media_file_to_be_downloaded is over a closed
\* set: BEST gives best_media_file, WORST gives worst_media_file, a numeric
\* quality of the enumeration is looked up in the map of the bundle (a file
\* of exactly that resolution, or an error that is not the ValueError), and
\* every other value raises the ValueError that names the allowed set, also
\* when the bundle has a file of that very resolution.
C18_ClosedDispatch ==
    (asked # Nothing /\ asked.op = "resolve") =>
        LET quality == asked.arg.quality IN
        CASE quality = "BEST" -> resolved = best_media_file(downloads)
          [] quality = "WORST" -> resolved = worst_media_file(downloads)
          [] quality \in NumericQualities ->
               IF resolved.kind = "return"
               THEN \E i \in FilesOf(ResolutionOf(quality)) : resolved.value = downloads[i]
               ELSE resolved.exc # "ValueError"
          [] OTHER ->
               resolved = Raise("ValueError",
                                [allowed |-> <<"WORST", "BEST", "360P", "480P", "720P", "1080P">>])

\* C18's case: 2160P was asked of a bundle that has a file of 2160.
C18_Witness ==
    /\ asked # Nothing /\ asked.op = "resolve" /\ asked.arg.quality = "2160P"
    /\ \E i \in 1..Len(downloads) : downloads[i].resolution = 2160
    /\ resolved.kind = "raise" /\ resolved.exc = "ValueError"

English == [lan |-> <<"e", "n">>, lanName |-> <<"E", "n", "g", "l", "i", "s", "h">>]

\* The positions of the English captions of the bundle.
EnglishCaptions ==
    { i \in 1..Len(captions) : captions[i].lan = English.lan /\ captions[i].lanName = English.lanName }

\* The positions of the captions an input matches: a 2-letter input by its
\* lower-case form against lan, any other by its capitalized form against
\* lanName.
MatchedCaptions(language) ==
    { i \in 1..Len(captions) :
        IF Len(language) = 2
        THEN captions[i].lan = Lower(language)
        ELSE captions[i].lanName = Capitalize(language) }

\* C19: get_subtitle_by_language never raises. A 2-letter input is matched,
\* whatever its case, against the short codes (lan), any other input is
\* capitalized and matched against the full names (lanName). An input that
\* matches no caption gives None; one that matches gives a matching caption
\* (the last of them in the list). With exactly one English caption the
\* inputs en, EN, English and english all give that caption.
C19_SubtitleLookup ==
    (asked # Nothing /\ asked.op = "get_subtitle_by_language") =>
        LET language == asked.arg.language
            matched == MatchedCaptions(language)
        IN
        /\ resolved.kind = "return"
        /\ matched = {} <=> resolved.value = Nothing
        /\ matched # {} =>
              /\ resolved.value = captions[CHOOSE i \in matched : \A j \in matched : j <= i]
        /\ (Cardinality(EnglishCaptions) = 1
            /\ language \in { <<"e", "n">>, <<"E", "N">>,
                              <<"E", "n", "g", "l", "i", "s", "h">>,
                              <<"e", "n", "g", "l", "i", "s", "h">> }) =>
              resolved.value = captions[CHOOSE i \in EnglishCaptions : TRUE]

\* C19's case: EN asked of the captions French, English gave the English one.
C19_Witness ==
    /\ captions = << CaptionFile(1, <<"f", "r">>, <<"F", "r", "e", "n", "c", "h">>),
                     CaptionFile(2, English.lan, English.lanName) >>
    /\ asked # Nothing /\ asked.op = "get_subtitle_by_language"
    /\ asked.arg.language = <<"E", "N">>
    /\ resolved = Return(CaptionFile(2, English.lan, English.lanName))


(***************************************************************************)
(* SpecNaming: MediaFileDownloader.generate_filename and                   *)
(* CaptionFileDownloader.generate_filename                                 *)
(***************************************************************************)

\* The highest season and the highest episode number a caller asks for.
MaxSeason == 2

MaxEpisode == 2

\* SubjectType.MUSIC
MUSIC == 6

\* The characters of a decimal number.
DigitChars == <<"0", "1", "2", "3", "4", "5", "6", "7", "8", "9">>

\* str(n) of an int that is not negative, as str.format puts it in a name.
RECURSIVE Str(_)
Str(n) ==
    IF n < 10 THEN <<DigitChars[n + 1]>>
    ELSE Str(n \div 10) \o <<DigitChars[(n % 10) + 1]>>

\* A template: literal text and placeholders, in order.
Lit(text) == [ph |-> "", text |-> text]

Ph(name) == [ph |-> name, text |-> <<>>]

\* MediaFileDownloader.movie_filename_template: "{title} ({release_year}).{ext}"
Media_movie_filename_template ==
    << Ph("title"), Lit(<<" ", "(">>), Ph("release_year"), Lit(<<")", ".">>), Ph("ext") >>

\* MediaFileDownloader.series_filename_template: "{title} S{season}E{episode}.{ext}"
Media_series_filename_template ==
    << Ph("title"), Lit(<<" ", "S">>), Ph("season"), Lit(<<"E">>), Ph("episode"),
       Lit(<<".">>), Ph("ext") >>

\* CaptionFileDownloader.movie_filename_template: "{title} ({release_year}).{lan}.{ext}"
Caption_movie_filename_template ==
    << Ph("title"), Lit(<<" ", "(">>), Ph("release_year"), Lit(<<")", ".">>), Ph("lan"),
       Lit(<<".">>), Ph("ext") >>

\* CaptionFileDownloader.series_filename_template:
\* "{title} S{season}E{episode}.{lan}.{ext}"
Caption_series_filename_template ==
    << Ph("title"), Lit(<<" ", "S">>), Ph("season"), Lit(<<"E">>), Ph("episode"),
       Lit(<<".">>), Ph("lan"), Lit(<<".">>), Ph("ext") >>

\* template.format(**placeholders)
RECURSIVE Format(_, _)
Format(template, placeholders) ==
    IF template = <<>> THEN <<>>
    ELSE LET part == Head(template) IN
         (IF part.ph = "" THEN part.text ELSE placeholders[part.ph])
             \o Format(Tail(template), placeholders)

\* The url of a file, by the parts FILE_EXT_PATTERN tells apart: the
\* extension after the last dot and whether a query follows it.
FileUrl(ext, query) == [ext |-> ext, query |-> query]

\* helpers.get_file_extension: .+\.(\w+)\?.+ gives the extension of a url
\* with a query and None of one without; None is put in a name as "None".
get_file_extension(url) == IF url.query THEN url.ext ELSE <<"N", "o", "n", "e">>

\* Of the characters of the model, the ones ILLEGAL_CHARACTERS_PATTERN
\* [^\w\-_\.\s()&|] does not take for illegal.
IsLegalFilenameChar(ch) == ch \notin {"/", "?"}

\* throttlebuster.helpers.sanitize_filename: the name without its illegal
\* characters.
RECURSIVE sanitize_filename(_)
sanitize_filename(name) ==
    IF name = <<>> THEN <<>>
    ELSE (IF IsLegalFilenameChar(Head(name)) THEN <<Head(name)>> ELSE <<>>)
             \o sanitize_filename(Tail(name))

\* A SearchResultsItem, by the fields generate_filename reads.
NamedItem(title, st, year) == [title |-> title, subjectType |-> st, year |-> year]

\* The changed generate_filename that takes the movie template for every item.
Media_generate_filename_movie_only(item, file, season, episode) ==
    Return(Format(Media_movie_filename_template,
                  [title |-> item.title, release_year |-> Str(item.year),
                   ext |-> get_file_extension(file.url),
                   season |-> Str(season), episode |-> Str(episode)]))

\* MediaFileDownloader.generate_filename: the file name of the pair it
\* returns.
Media_generate_filename(item, file, season, episode) ==
    LET placeholders == [title |-> item.title, release_year |-> Str(item.year),
                         ext |-> get_file_extension(file.url),
                         season |-> Str(season), episode |-> Str(episode)]
        filename_template == IF item.subjectType = TV_SERIES
                             THEN Media_series_filename_template
                             ELSE Media_movie_filename_template
    IN  Return(Format(filename_template, placeholders))

\* CaptionFileDownloader.generate_filename: the file name of the pair it
\* returns.
Caption_generate_filename(item, file, season, episode) ==
    LET placeholders == [title |-> item.title, release_year |-> Str(item.year),
                         ext |-> get_file_extension(file.url), lan |-> file.lan,
                         season |-> Str(season), episode |-> Str(episode)]
        filename_template == IF item.subjectType = TV_SERIES
                             THEN Caption_series_filename_template
                             ELSE Caption_movie_filename_template
    IN  Return(sanitize_filename(Format(filename_template, placeholders)))

\* Titles: "Titanic", "Show" and "A/B?".
NamedTitles ==
    { <<"T", "i", "t", "a", "n", "i", "c">>, <<"S", "h", "o", "w">>, <<"A", "/", "B", "?">> }

NamedItems ==
    { NamedItem(t, st, y) : t \in NamedTitles, st \in {MOVIES, TV_SERIES, MUSIC}, y \in {1997, 2010} }

\* Media files: an mp4 with a query in its url, and one without.
NamedMediaFiles == { [url |-> FileUrl(<<"m", "p", "4">>, q)] : q \in BOOLEAN }

\* Caption files: an srt in en or fr, with a query in its url.
NamedCaptionFiles ==
    { [url |-> FileUrl(<<"s", "r", "t">>, TRUE), lan |-> l] : l \in {<<"e", "n">>, <<"f", "r">>} }

\* MediaFileDownloader().generate_filename(item, file, season, episode)
PlanMedia(item, file, season, episode) ==
    /\ plan' = [downloader |-> "MediaFileDownloader", item |-> item, file |-> file,
                season |-> season, episode |-> episode]
    /\ planned' = Media_generate_filename(item, file, season, episode)
    /\ UNCHANGED <<sessVars, envVars, pageVars, searchVars, recVars, detVars, assetVars, runVars>>

\* CaptionFileDownloader().generate_filename(item, file, season, episode)
PlanCaption(item, file, season, episode) ==
    /\ plan' = [downloader |-> "CaptionFileDownloader", item |-> item, file |-> file,
                season |-> season, episode |-> episode]
    /\ planned' = Caption_generate_filename(item, file, season, episode)
    /\ UNCHANGED <<sessVars, envVars, pageVars, searchVars, recVars, detVars, assetVars, runVars>>

InitNaming ==
    /\ SessInit /\ EnvIdle /\ PageIdle /\ SearchIdle
    /\ RecIdle /\ DetIdle /\ AssetIdle /\ PlanIdle /\ RunIdle

NextNaming ==
    \/ \E item \in NamedItems, file \in NamedMediaFiles,
          season \in 0..MaxSeason, episode \in 0..MaxEpisode :
          PlanMedia(item, file, season, episode)
    \/ \E item \in NamedItems, file \in NamedCaptionFiles,
          season \in 0..MaxSeason, episode \in 0..MaxEpisode :
          PlanCaption(item, file, season, episode)

SpecNaming == InitNaming /\ [][NextNaming]_vars

\* The name the templates of the claim give for the last generate_filename:
\* the series form for a TV_SERIES item and the movie form for every other,
\* with ".{lan}" before the extension for a caption.
TemplateName ==
    plan.item.title
    \o (IF plan.item.subjectType = TV_SERIES
        THEN <<" ", "S">> \o Str(plan.season) \o <<"E">> \o Str(plan.episode)
        ELSE <<" ", "(">> \o Str(plan.item.year) \o <<")">>)
    \o (IF plan.downloader = "CaptionFileDownloader" THEN <<".">> \o plan.file.lan ELSE <<>>)
    \o <<".">> \o get_file_extension(plan.file.url)

\* C20 as stated: the media name is "{title} S{season}E{episode}.{ext}" for a
\* TV_SERIES item and "{title} ({release_year}).{ext}" for every other, and
\* the caption name is the same with ".{lan}" before the extension.
C20_Original ==
    plan # Nothing => planned = Return(TemplateName)

\* C20 as amended: the media name is exactly that of the template; the
\* caption name is that of the template with ".{lan}" before the extension
\* after sanitize_filename has taken the illegal characters (as "/" and "?")
\* out of it, which is the same name only when the title holds none.
C20_FilenameTemplate ==
    plan # Nothing =>
        IF plan.downloader = "MediaFileDownloader"
        THEN planned = Return(TemplateName)
        ELSE planned = Return(SelectSeq(TemplateName, LAMBDA ch : ch \notin {"/", "?"}))

\* C20's case: the series Show, season 1, episode 2, as mp4 gave "Show S1E2.mp4".
C20_Witness ==
    /\ plan # Nothing /\ plan.downloader = "MediaFileDownloader"
    /\ plan.item = NamedItem(<<"S", "h", "o", "w">>, TV_SERIES, 2010)
    /\ plan.season = 1 /\ plan.episode = 2
    /\ planned = Return(<<"S", "h", "o", "w", " ", "S", "1", "E", "2", ".", "m", "p", "4">>)


(***************************************************************************)
(* SpecDownload: MediaFileDownloader.run and CaptionFileDownloader.run,    *)
(* with the directory create_final_dir plans for them                      *)
(***************************************************************************)

\* Path.joinpath(name) of a relative name, paths being sequences of
\* characters.
joinpath(dir, name) == dir \o <<"/">> \o name

\* The directories above path.
Parents(path) == { SubSeq(path, 1, k - 1) : k \in { i \in 2..Len(path) : path[i] = "/" } }

\* os.makedirs(path, exist_ok=True): path and every directory above it exist
\* afterwards.
makedirs(fs, path) == fs \cup Parents(path) \cup {path}

\* f"{search_results_item.title} ({search_results_item.releaseDate.year})"
TitleAndYear(item) == item.title \o <<" ", "(">> \o Str(item.year) \o <<")">>

\* The changed create_final_dir that makes the directory in test mode too.
create_final_dir_always_makes(fs, working_dir, item, season, episode, test, group) ==
    IF group /\ season # 0 /\ episode # 0
    THEN IF working_dir \notin fs
         THEN [out |-> Raise("AssertionError", Nothing), disk |-> fs]
         ELSE LET final_dir == joinpath(joinpath(working_dir, TitleAndYear(item)),
                                        <<"S">> \o Str(season))
              IN  [out |-> Return([dir |-> final_dir]), disk |-> makedirs(fs, final_dir)]
    ELSE [out |-> Return([dir |-> working_dir]), disk |-> fs]

\* BaseFileDownloaderAndHelper.create_final_dir on the disk fs: what it
\* returns or raises, and the disk afterwards.
create_final_dir(fs, working_dir, item, season, episode, test, group) ==
    IF group /\ season # 0 /\ episode # 0
    THEN IF working_dir \notin fs
         THEN [out |-> Raise("AssertionError", Nothing), disk |-> fs]
         ELSE LET final_dir == joinpath(joinpath(working_dir, TitleAndYear(item)),
                                        <<"S">> \o Str(season))
              IN  [out |-> Return([dir |-> final_dir]),
                   disk |-> IF ~test THEN makedirs(fs, final_dir) ELSE fs]
    ELSE [out |-> Return([dir |-> working_dir]), disk |-> fs]

\* A downloader: its class, throttle_buster.dir and group_series.
Downloader(cls, dir, group_series) == [cls |-> cls, dir |-> dir, group_series |-> group_series]

\* The filename argument of run: a SearchResultsItem or a str.
ItemArg(item) == [isItem |-> TRUE, item |-> item, name |-> <<>>]

StrArg(name) == [isItem |-> FALSE, item |-> Nothing, name |-> name]

\* The dir argument of throttle_buster.run: None or a directory.
NoDir == [has |-> FALSE, val |-> <<>>]

\* One call of throttle_buster.run, by the arguments this model follows.
RunnerCall(filename, dir, test) == [filename |-> filename, dir |-> dir, test |-> test]

\* MediaFileDownloader.generate_filename, whole: the name and the directory
\* of create_final_dir, or what that raised, and the disk afterwards.
Media_generate(fs, dl, item, file, season, episode, test) ==
    LET d == create_final_dir(fs, dl.dir, item, season, episode, test, dl.group_series)
        f == Media_generate_filename(item, file, season, episode)
    IN  IF d.out.kind = "raise" THEN d
        ELSE [out |-> Return([filename |-> f.value, dir |-> d.out.value.dir]), disk |-> d.disk]

\* CaptionFileDownloader.generate_filename, whole.
Caption_generate(fs, dl, item, file, season, episode, test) ==
    LET d == create_final_dir(fs, dl.dir, item, season, episode, test, dl.group_series)
        f == Caption_generate_filename(item, file, season, episode)
    IN  IF d.out.kind = "raise" THEN d
        ELSE [out |-> Return([filename |-> f.value, dir |-> d.out.value.dir]), disk |-> d.disk]

\* What throttle_buster.run gives back: the file as downloaded.
Downloaded(call) == Return([saved |-> call.filename])

\* MediaFileDownloader.run: its outcome, the disk afterwards and the calls of
\* throttle_buster.run it made.
Media_run(fs, dl, file, filename, season, episode, test) ==
    IF filename.isItem
    THEN LET g == Media_generate(fs, dl, filename.item, file, season, episode, test) IN
         IF g.out.kind = "raise"
         THEN [out |-> g.out, disk |-> g.disk, runner |-> <<>>]
         ELSE LET call == RunnerCall(g.out.value.filename, Some(g.out.value.dir), test)
              IN  [out |-> Downloaded(call), disk |-> g.disk, runner |-> <<call>>]
    ELSE IF dl.group_series
    THEN [out |-> Raise("ValueError", [msg |-> "filename should be a SearchResultsItem"]),
          disk |-> fs, runner |-> <<>>]
    ELSE LET call == RunnerCall(filename.name, NoDir, test)
         IN  [out |-> Downloaded(call), disk |-> fs, runner |-> <<call>>]

\* CaptionFileDownloader.run: the same, with no test of group_series.
Caption_run(fs, dl, file, filename, season, episode, test) ==
    IF filename.isItem
    THEN LET g == Caption_generate(fs, dl, filename.item, file, season, episode, test) IN
         IF g.out.kind = "raise"
         THEN [out |-> g.out, disk |-> g.disk, runner |-> <<>>]
         ELSE LET call == RunnerCall(g.out.value.filename, Some(g.out.value.dir), test)
              IN  [out |-> Downloaded(call), disk |-> g.disk, runner |-> <<call>>]
    ELSE LET call == RunnerCall(filename.name, NoDir, test)
         IN  [out |-> Downloaded(call), disk |-> fs, runner |-> <<call>>]

\* Working directories: "w", which exists from the start, and "n", which
\* does not.
WorkingDirs == { <<"w">>, <<"n">> }

\* The items of the calls: the series "Show" of 2010 and the movie "A/B?" of
\* 1997.
RunItems ==
    { NamedItem(<<"S", "h", "o", "w">>, TV_SERIES, 2010),
      NamedItem(<<"A", "/", "B", "?">>, MOVIES, 1997) }

\* The filename arguments of run: one of the items, or the str "f.mp4".
RunFilenames == { ItemArg(it) : it \in RunItems } \cup { StrArg(<<"f", ".", "m", "p", "4">>) }

\* The season and episode arguments of the calls.
RunSeasons == {0, 1, 2}

RunEpisodes == {0, 3}

\* cls.create_final_dir(working_dir, item, season, episode, test, group)
CreateFinalDir(working_dir, item, season, episode, test, group) ==
    /\ LET r == create_final_dir(disk, working_dir, item, season, episode, test, group) IN
       /\ job' = [op |-> "create_final_dir", dir |-> working_dir, group |-> group,
                  filename |-> ItemArg(item), season |-> season, episode |-> episode,
                  test |-> test, diskBefore |-> disk]
       /\ jobOut' = r.out
       /\ disk' = r.disk
    /\ runner' = <<>>
    /\ UNCHANGED <<sessVars, envVars, pageVars, searchVars, recVars, detVars, assetVars, planVars>>

\* MediaFileDownloader(dir, group_series).run(media_file, filename,
\* season=season, episode=episode, test=test)
MediaRun(working_dir, group, filename, season, episode, test) ==
    /\ LET file == [url |-> FileUrl(<<"m", "p", "4">>, TRUE)]
           r == Media_run(disk, Downloader("MediaFileDownloader", working_dir, group),
                          file, filename, season, episode, test)
       IN
       /\ job' = [op |-> "MediaFileDownloader.run", dir |-> working_dir, group |-> group,
                  filename |-> filename, season |-> season, episode |-> episode,
                  test |-> test, diskBefore |-> disk]
       /\ jobOut' = r.out
       /\ disk' = r.disk
       /\ runner' = r.runner
    /\ UNCHANGED <<sessVars, envVars, pageVars, searchVars, recVars, detVars, assetVars, planVars>>

\* CaptionFileDownloader(dir, group_series).run(caption_file, filename,
\* season, episode, test=test)
CaptionRun(working_dir, group, filename, season, episode, test) ==
    /\ LET file == [url |-> FileUrl(<<"s", "r", "t">>, TRUE), lan |-> <<"e", "n">>]
           r == Caption_run(disk, Downloader("CaptionFileDownloader", working_dir, group),
                            file, filename, season, episode, test)
       IN
       /\ job' = [op |-> "CaptionFileDownloader.run", dir |-> working_dir, group |-> group,
                  filename |-> filename, season |-> season, episode |-> episode,
                  test |-> test, diskBefore |-> disk]
       /\ jobOut' = r.out
       /\ disk' = r.disk
       /\ runner' = r.runner
    /\ UNCHANGED <<sessVars, envVars, pageVars, searchVars, recVars, detVars, assetVars, planVars>>

InitDownload ==
    /\ SessInit /\ EnvIdle /\ PageIdle /\ SearchIdle
    /\ RecIdle /\ DetIdle /\ AssetIdle /\ PlanIdle /\ RunIdle

NextDownload ==
    \/ \E working_dir \in WorkingDirs, item \in RunItems, season \in RunSeasons,
          episode \in RunEpisodes, test \in BOOLEAN, group \in BOOLEAN :
          CreateFinalDir(working_dir, item, season, episode, test, group)
    \/ \E working_dir \in WorkingDirs, group \in BOOLEAN, filename \in RunFilenames,
          season \in RunSeasons, episode \in RunEpisodes, test \in BOOLEAN :
          MediaRun(working_dir, group, filename, season, episode, test)
    \/ \E working_dir \in WorkingDirs, group \in BOOLEAN, filename \in RunFilenames,
          season \in RunSeasons, episode \in RunEpisodes, test \in BOOLEAN :
          CaptionRun(working_dir, group, filename, season, episode, test)

SpecDownload == InitDownload /\ [][NextDownload]_vars

\* The last call grouped: grouping on, and neither season nor episode 0.
Grouped == job.group /\ job.season # 0 /\ job.episode # 0

\* '{working_dir}/{title} ({release_year})/S{season}' of the last call.
GroupedDir ==
    job.dir \o <<"/">> \o job.filename.item.title \o <<" ", "(">>
        \o Str(job.filename.item.year) \o <<")", "/", "S">> \o Str(job.season)

\* C21: create_final_dir returns '{working_dir}/{title} ({release_year})/S{season}'
\* if and only if grouping is on and season and episode are both not 0, and
\* otherwise the working directory as it was given; the directory is made on
\* disk in the grouped case with test false and only then: in test mode, in
\* every case that is not grouped (and when the call raises because the
\* working directory does not exist) the disk is as it was.
C21_FinalDir ==
    (job # Nothing /\ job.op = "create_final_dir") =>
        /\ jobOut.kind = "return" =>
              /\ Grouped => jobOut.value.dir = GroupedDir
              /\ ~Grouped => jobOut.value.dir = job.dir
              /\ jobOut.value.dir = GroupedDir <=> Grouped
        /\ (jobOut.kind = "return" /\ Grouped /\ ~job.test) =>
              /\ GroupedDir \in disk
              /\ job.diskBefore \subseteq disk
              /\ \A d \in disk \ job.diskBefore :
                    d = GroupedDir \/ (Len(d) < Len(GroupedDir) /\ d = SubSeq(GroupedDir, 1, Len(d)))
        /\ (jobOut.kind = "raise" \/ ~Grouped \/ job.test) => disk = job.diskBefore
        /\ jobOut.kind = "raise" => (Grouped /\ job.dir \notin job.diskBefore)

\* C21's case: a grouped call outside test mode made a directory that was
\* not there.
C21_Witness ==
    /\ job # Nothing /\ job.op = "create_final_dir"
    /\ Grouped /\ ~job.test /\ jobOut.kind = "return"
    /\ jobOut.value.dir \notin job.diskBefore
    /\ jobOut.value.dir =
          <<"w", "/", "S", "h", "o", "w", " ", "(", "2", "0", "1", "0", ")", "/", "S", "1">>
    /\ jobOut.value.dir \in disk

\* C22: MediaFileDownloader.run and CaptionFileDownloader.run, with
\* group_series on and a filename that is not a SearchResultsItem, fail with
\* a ValueError and never call the download runner.
C22_GroupingNeedsItem ==
    (job # Nothing /\ job.op \in {"MediaFileDownloader.run", "CaptionFileDownloader.run"}
     /\ job.group /\ ~job.filename.isItem) =>
        /\ jobOut.kind = "raise" /\ jobOut.exc = "ValueError"
        /\ runner = <<>>

\* C23: every file name that MediaFileDownloader.run or
\* CaptionFileDownloader.run makes from a SearchResultsItem and hands to the
\* download runner is without illegal characters.
C23_SanitizedNames ==
    (job # Nothing /\ job.op \in {"MediaFileDownloader.run", "CaptionFileDownloader.run"}
     /\ job.filename.isItem) =>
        \A i \in 1..Len(runner) :
            \A k \in 1..Len(runner[i].filename) : runner[i].filename[k] \notin {"/", "?"}


\* The last navigation call was given the model of its class and raised.
BoundaryError == nav # Nothing /\ RightModel(nav) /\ nav.out.kind = "raise"

\* C24 as stated: the error of next_page with hasMore false and the error of
\* previous_page at the first page both carry the pager given to the call.
C24_Original == BoundaryError => nav.out.carried = nav.content.pager

\* C24: of the two boundary errors of Search, Trending and Recommend, the
\* ExhaustedSearchResultsError of next_page with hasMore false carries the
\* pager given to the call; the error of previous_page at the first page is
\* a MovieboxApiException that carries no pager.
C24_BoundaryErrors ==
    BoundaryError =>
        IF nav.op = "next_page"
        THEN /\ nav.out.exc = "ExhaustedSearchResultsError"
             /\ ~nav.content.pager.hasMore
             /\ nav.out.carried = nav.content.pager
        ELSE /\ nav.out.exc = "MovieboxApiException"
             /\ nav.out.carried = Nothing

\* C24's case: Recommend.next_page refused a pager with no more pages and
\* the error holds that pager.
C24_Witness ==
    /\ BoundaryError /\ nav.op = "next_page" /\ nav.self.cls = "Recommend"
    /\ nav.out.carried = nav.content.pager
    /\ nav.content.pager.page >= 2


\* How many times a call's log holds the request req.
Sent(log, req) == Cardinality({ i \in 1..Len(log) : log[i] = req })

\* C25: a call of Session.get, get_with_cookies or post (and of their *_api
\* forms) sends its own request at most once, and nothing after it; when the
\* response to it is not 2xx the call ends with the HTTP status error of
\* that response, whatever the body holds (so before the test for an empty
\* body and before the envelope is unwrapped), having sent no request again.
C25_FailFast ==
    /\ \A c \in CallRecords :
          /\ Sent(c.log, "target") <= 1
          /\ Sent(c.log, "handshake") <= 1
          /\ \A i \in 1..Len(c.log) : c.log[i] = "target" => i = Len(c.log)
    /\ net.authSent + net.plainSent <= calls
    /\ (lastDone.task # "none" /\ lastDone.resp # Nothing /\ ~is_success(lastDone.resp)) =>
          /\ lastDone.out = Raise("HTTPStatusError", lastDone.resp)
          /\ Sent(lastDone.log, "target") = 1

\* C25's case: an api call got a 500 response with an empty body to its own
\* request, after its handshake, and ended with the status error.
C25_Witness ==
    /\ lastDone.task # "none" /\ lastDone.resp # Nothing
    /\ lastDone.kind \in ApiKinds /\ lastDone.kind \in AuthKinds
    /\ lastDone.resp.status = 500 /\ lastDone.resp.body.empty
    /\ lastDone.out.exc = "HTTPStatusError"
    /\ lastDone.log = <<"handshake", "target">>


\* C26: when the handshake request of the first authenticated call comes
\* back 2xx with an empty body, the call fails with EmptyResponseError and
\* with no other error, and its own request is not sent.
C26_HandshakeEmptyBody ==
    (lastDone.task # "none" /\ lastDone.hs # Nothing /\ lastDone.first
     /\ is_success(lastDone.hs) /\ lastDone.hs.body.empty) =>
        /\ lastDone.out.kind = "raise" /\ lastDone.out.exc = "EmptyResponseError"
        /\ Sent(lastDone.log, "target") = 0

\* C27: a handshake that raises leaves the Session as it was: the flag and
\* moviebox_app_info are not changed by it (so the flag is false and the app
\* info unset as long as no handshake has succeeded), the call ends with the
\* exception without having sent its own request, and an authenticated call
\* that starts while the flag is false sends the handshake request again.
C27_FailedHandshake ==
    [][ /\ net'.hsFailed > net.hsFailed =>
              /\ fetched' = fetched /\ appInfo' = appInfo
              /\ net'.authSent = net.authSent
              /\ lastDone'.out.kind = "raise"
              /\ Sent(lastDone'.log, "target") = 0
              /\ net.hsOk = 0 => (~fetched' /\ appInfo' = Nothing /\ net'.authSent = 0)
        /\ \A t \in Tasks :
              (tasks[t].pc = "idle" /\ tasks'[t].pc # "idle"
               /\ tasks'[t].kind \in AuthKinds /\ ~fetched) =>
                  /\ tasks'[t].pc = "await_handshake"
                  /\ net'.hsSent = net.hsSent + 1 ]_vars

\* C27's case: the handshake of a call failed on an unsuccessful envelope,
\* and the same task's next authenticated call has sent the handshake
\* request again.
C27_Witness ==
    /\ lastDone.task = "t1" /\ lastDone.hs # Nothing
    /\ lastDone.out.exc = "UnsuccessfulResponseError"
    /\ tasks["t1"].pc = "await_handshake" /\ tasks["t2"].pc = "idle"
    /\ net.hsFailed = 1 /\ net.hsSent = 2 /\ net.hsOk = 0
    /\ ~fetched /\ appInfo = Nothing /\ net.authSent = 0


\* The tasks whose request for the page is on the wire.
InFlight == { t \in Tasks : dtasks[t] # Nothing }

\* C28: when the calls that asked for the page of one object all started
\* with its cache empty and none has been answered yet, the page has been
\* requested at most once.
C28_ConcurrentAtMostOnce ==
    (resolver # Nothing /\ resolver.html = Nothing /\ Cardinality(InFlight) = pageReqs) =>
        pageReqs <= 1


\* The resolution resolve('BEST') or resolve('WORST') was to find in the
\* bundle: its highest or its lowest.
ExtremeResolution ==
    LET all == { downloads[i].resolution : i \in 1..Len(downloads) } IN
    IF asked.arg.quality = "BEST"
    THEN CHOOSE r \in all : \A q \in all : q <= r
    ELSE CHOOSE r \in all : \A q \in all : q >= r

\* resolve('BEST') or resolve('WORST') was asked of a bundle whose highest or
\* lowest resolution is one of 360, 480, 720, 1080.
RelativeAsked ==
    /\ asked # Nothing /\ asked.op = "resolve" /\ asked.arg.quality \in {"BEST", "WORST"}
    /\ downloads # <<>>
    /\ ExtremeResolution \in {360, 480, 720, 1080}

\* resolve('{R}P') of the same bundle, R being that resolution.
ExactOfExtreme ==
    resolve_media_file_to_be_downloaded(ToString(ExtremeResolution) \o "P", downloads)

\* C29 as stated: resolve(BEST) and resolve('{R}P') for the highest
\* resolution R return the same file, and so do resolve(WORST) and the exact
\* lookup of the lowest, files sharing that resolution or not.
C29_Original == RelativeAsked => resolved = ExactOfExtreme

\* C29: for a bundle whose highest (lowest) resolution R is one of 360, 480,
\* 720, 1080, resolve(BEST) (resolve(WORST)) returns the first file of
\* resolution R in list order and resolve('{R}P') the last one; the two are
\* the same file exactly when one file only has that resolution.
C29_RelativeAndExact ==
    RelativeAsked =>
        LET at == FilesOf(ExtremeResolution)
            first == CHOOSE i \in at : \A j \in at : i <= j
            last == CHOOSE i \in at : \A j \in at : j <= i
        IN  /\ resolved = Return(downloads[first])
            /\ ExactOfExtreme = Return(downloads[last])
            /\ resolved = ExactOfExtreme <=> Cardinality(at) = 1

\* C29's case: of two files of 720 and one of 1080, WORST is the first of
\* the two and '720P' the second.
C29_Witness ==
    /\ downloads = <<MediaFile(1, 720), MediaFile(2, 1080), MediaFile(3, 720)>>
    /\ RelativeAsked /\ asked.arg.quality = "WORST"
    /\ resolved = Return(MediaFile(1, 720))
    /\ ExactOfExtreme = Return(MediaFile(3, 720))


(***************************************************************************)
(* SpecRecommendLoop: a caller that starts a Recommend at page 1 and, as   *)
(* long as next_page gives a query, fetches its content and asks for the   *)
(* next page of it. Every request is answered.                             *)
(***************************************************************************)

\* query = Recommend(session, item, page=1, per_page=...)
LoopInit == shelf \in 0..MaxShelf /\ rfetch = Nothing
            /\ rquery \in { Recommend("s1", "item1", 1, per_page) : per_page \in RecPerPages }

\* content = await query.get_content_model()
LoopFetch(sent) == rfetch = Nothing /\ RecGetContent(TRUE, sent)

\* query = query.next_page(content); the loop ends when it raises.
LoopNextPage == RecNextPage

InitRecommendLoop ==
    /\ SessInit /\ EnvIdle /\ PageIdle /\ SearchIdle
    /\ LoopInit /\ DetIdle /\ AssetIdle /\ PlanIdle /\ RunIdle

NextRecommendLoop ==
    \/ \E sent \in SentPagers : LoopFetch(sent)
    \/ LoopNextPage

\* The caller's loop is one coroutine: each of its steps is taken once the
\* one before it is done.
SpecRecommendLoop ==
    InitRecommendLoop /\ [][NextRecommendLoop]_vars /\ WF_vars(NextRecommendLoop)

\* next_page has raised ExhaustedSearchResultsError on the content fetched
\* last.
LoopExhausted == rfetch # Nothing /\ rfetch.exhausted

\* C30: the loop that starts at page 1 and goes on with next_page of what it
\* fetched reaches a content on which next_page raises
\* ExhaustedSearchResultsError, and when it does the page fetched last is the
\* one page without items that it fetched: that page is empty and every page
\* before it had items.
C30_LoopTerminates ==
    /\ <>LoopExhausted
    /\ [](LoopExhausted =>
            /\ rfetch.out.value.nitems = 0
            /\ ItemsOnPage(shelf, rfetch.self.page, rfetch.self.per_page) = 0
            /\ \A p \in 1..(rfetch.self.page - 1) :
                  ItemsOnPage(shelf, p, rfetch.self.per_page) > 0
            /\ rquery = rfetch.self)

\* C30's case: with four items in pages of two the loop ended on page 3, the
\* first page without items.
C30_Witness ==
    /\ LoopExhausted /\ shelf = 4
    /\ rfetch.self.page = 3 /\ rfetch.self.per_page = 2
    /\ rfetch.out.value.nitems = 0

=============================================================================
